---------------------------- MODULE Spec2Model ----------------------------
(***************************************************************************)
(* Model of the inference-benchmark dashboard's server side:               *)
(*   - the benchmark orchestrator   POST /api/benchmark                    *)
(*   - the single-provider routes   POST /api/benchmark/{cerebras,fireworks}*)
(*   - the stream-metrics accumulator of lib/benchmark-utils.ts            *)
(*                                                                         *)
(* Conventions.                                                            *)
(*  * A JSON/JS value whose type matters is a tagged record                *)
(*    ([t |-> "undefined"], [t |-> "string", s |-> ..], ...).              *)
(*  * A BenchmarkResult is a record; an optional field that is absent      *)
(*    (undefined, dropped by JSON) is absent from the record's DOMAIN.     *)
(*  * performance.now() is a float in milliseconds.  Time is counted in    *)
(*    half-milliseconds so that Math.round is not the identity.            *)
(*  * tokens_per_second / throughput_first_100 are kept in tenths (the     *)
(*    value roundToOneDecimal returns, times 10).                          *)
(*  * The accumulated text is represented by its length: the code reads    *)
(*    nothing of fullResponse but .length.                                 *)
(*  * The errors the environment raises (fetch, the SDK, JSON parsing, the  *)
(*    stream) are Error objects with a non-empty message, or non-Error      *)
(*    values.                                                               *)
(***************************************************************************)
EXTENDS Integers, Sequences, FiniteSets, TLC

VARIABLES
    \* ---- orchestrator, POST /api/benchmark ----
    opc,          \* "idle" | "awaiting" | "done"
    obody,        \* the request body as request.json() delivers it
    selected,     \* selectedProviders
    calls,        \* per index: the benchmark promise, pending or settled
    handlerSent,  \* per index: what the provider's route answered (or "none")
    subRequests,  \* the per-provider HTTP sub-requests issued so far
    oresp,        \* the orchestrator's HTTP response, or NoResponse
    \* ---- one per-provider call: the orchestrator's wrapper and the route ----
    cpc,          \* position of the call
    cprovider,    \* the provider identifier of the call
    rbody,        \* the body the route receives
    envKey,       \* process.env[<PROVIDER>_API_KEY]
    metrics,      \* the route's StreamMetrics
    upstreamCalls,\* upstream network calls the route has made
    credLookups,  \* calls of getRequiredApiKey
    chunksSeen,   \* stream items delivered by the upstream so far
    rresp,        \* the route's HTTP response, or NoResponse
    escaped,      \* TRUE iff an exception left the route's POST
    caught,       \* the value the route's catch block was entered with
    callResult,   \* what the orchestrator's promise for this call holds
    caller,       \* who posted to the route: "client" or "orchestrator"
    now,          \* performance.now(), in half-milliseconds
    \* ---- one run of createStreamReader and its consumer ----
    rdpc,         \* "idle" | "reading" | "yielded" | "done" | "returned" | "threw"
    wire,         \* the part of the upstream body not yet delivered by read()
    buffer,       \* the generator's buffer
    lines,        \* the lines of the current for-of loop not yet looked at
    inTail,       \* TRUE iff the generator is past the read loop
    yielded,      \* the content values yielded so far
    readerLock,   \* "none" | "locked" | "released"
    releaseCalls, \* calls of reader.releaseLock()
    parsedLog,    \* the applications of parseSSELine: [line, result]
    stream,       \* the whole upstream body, as bytes
    decoderPending, \* the bytes the TextDecoder holds back between reads
    \* ---- one agent-race request, POST /api/agent-race ----
    apc,          \* "idle" | "calling" | "ended" | "refused"
    aresp,        \* the HTTP response of the request, or NoResponse
    abody,        \* the request body
    raceKey,      \* process.env[<PROVIDER>_API_KEY] during the race
    stepIndex,    \* i + 1 of the step whose call is awaited
    stepStart,    \* startTime of that step
    previousOutput,
    totalLatency,
    hasError,
    events,       \* the messages enqueued on the stream, in order
    providerCalls,\* the calls of callProvider, in order
    callOutcomes, \* how the calls settled, in order
    channel,      \* the ReadableStream: "none" | "open" | "cancelled" | "closed"
    closeCalls,   \* calls of controller.close()
    emitFailed,   \* TRUE iff controller.enqueue or controller.close threw
    \* ---- one request of the simulated benchmark, POST /api/benchmark/mock ----
    mpc,          \* "idle" | "waiting" | "done"
    mbody,        \* the request body
    mqueue,       \* the part of providersToTest the loop has not passed
    mresults,     \* results, as pushed so far
    mresp,        \* the HTTP response, or NoResponse
    randomStream, \* the values Math.random() returns, repeated in turn
    randomCalls,  \* calls of Math.random() made so far
    \* ---- the page (Home) and its benchmark context, in one browser ----
    bpc,          \* "unmounted" | "mounted"
    demoMode,
    isLoading,
    bendpoint,    \* the endpoint of the request that is under way
    results,      \* the results the benchmark view shows
    isMockData,
    savedResults, \* the context's results
    lastRun,      \* the context's lastRun: a Date (in ms) or null
    storage,      \* localStorage's item "benchmark_results", parsed, or NoBody
    wallClock,    \* what new Date() reads, in ms
    runLog,       \* the benchmark runs that have ended, in order
    \* ---- the page's agent race, runAgentRace ----
    isRacing,
    raceWinner,   \* null or the provider
    agentRaces,   \* per selected provider: [steps, totalLatency, complete, error]
    selectedAgentProviders,
    cstate,       \* per provider, its callback: "idle" | "fetching" | "reading" |
                  \* "returned" | "caught"
    cstream,      \* per provider: the events of its stream not yet read
    handledLog,   \* per provider: the events handled in this race, in order
    finishOrder,  \* the providers whose terminal event was handled, in order
    raceAwait     \* await Promise.all: "none" | "awaiting" | "resumed" | "threw"

ovars == <<opc, obody, selected, calls, handlerSent, subRequests, oresp>>
cvars == <<cpc, cprovider, rbody, envKey, metrics, upstreamCalls, credLookups,
           chunksSeen, rresp, escaped, caught, callResult, caller>>
rvars == <<rdpc, wire, buffer, lines, inTail, yielded, readerLock, releaseCalls,
           parsedLog, stream, decoderPending>>
avars == <<apc, aresp, abody, raceKey, stepIndex, stepStart, previousOutput,
           totalLatency, hasError, events, providerCalls, callOutcomes, channel,
           closeCalls, emitFailed>>
mvars == <<mpc, mbody, mqueue, mresults, mresp, randomStream, randomCalls>>
bvars == <<bpc, demoMode, isLoading, bendpoint, results, isMockData, savedResults,
           lastRun, storage, wallClock, runLog>>
gvars == <<isRacing, raceWinner, agentRaces, selectedAgentProviders, cstate, cstream,
           handledLog, finishOrder, raceAwait>>
wvars == <<mvars, bvars, gvars>>
xvars == <<rvars, avars, wvars>>
vars  == <<ovars, cvars, now, xvars>>

-----------------------------------------------------------------------------
(* Bounds of the model *)
MaxProviders == 2       \* longest explicit providers list of a request
MaxElapsed   == 2       \* longest elapsed time (half-ms) of an abstracted route run
MaxTime      == 4       \* the clock stops advancing here
MaxChunks    == 3       \* most stream items per upstream response
MaxLines     == 2       \* most lines of an upstream body read by createStreamReader
MaxRuns      == 3       \* most benchmark runs started in the page

(* Program constants *)
MAX_TOKENS                  == 256
CHARS_PER_TOKEN             == 4
TOKEN_THRESHOLD_FOR_METRICS == 100
MAX_TOKENS_PER_STEP         == 150
OUTPUT_PREVIEW_LENGTH       == 150

-----------------------------------------------------------------------------
(* JavaScript values *)
JsUndefined == [t |-> "undefined"]
JsNull      == [t |-> "null"]
JsStr(s)    == [t |-> "string", s |-> s]
JsNum(n)    == [t |-> "number", n |-> n]
JsArr(a)    == [t |-> "array", a |-> a]
\* a non-empty or empty piece of text, by its length
JsText(len) == [t |-> "text", len |-> len]
\* a non-integer number num/den (den > 0), kept exact
JsRate(num, den) == [t |-> "rate", num |-> num, den |-> den]

\* ToBoolean
Truthy(v) ==
    CASE v.t = "undefined" -> FALSE
      [] v.t = "null"      -> FALSE
      [] v.t = "string"    -> v.s # ""
      [] v.t = "number"    -> v.n # 0
      [] v.t = "rate"      -> v.num # 0
      [] v.t = "text"      -> v.len # 0
      [] OTHER             -> TRUE

\* v.length as the code reads it (undefined for a number)
JsLength(v) ==
    CASE v.t = "string" -> Len(v.s)
      [] v.t = "array"  -> Len(v.a)
      [] OTHER          -> 0

NoResponse == [status |-> 0]
NoBody     == [none |-> TRUE]             \* no JSON body / no value yet
Unparseable == [t |-> "unparseable"]     \* request.json() rejects
NoRequest   == [t |-> "norequest"]       \* no request received yet

\* const { f, ... } = body throws a TypeError for null (and undefined)
Destructurable(body) == body.t \in {"object", "number", "string", "array"}
\* the value the destructuring binds to f
BodyField(body, f) ==
    IF body.t = "object" /\ f \in DOMAIN body THEN body[f] ELSE JsUndefined

Has(r, f) == f \in DOMAIN r

-----------------------------------------------------------------------------
(* The provider registry and the orchestrator's endpoint table *)
EndpointNames == {"cerebras", "fireworks", "groq"}
ProviderIds   == EndpointNames \cup {"mistral"}

PROVIDER_ENDPOINTS(p) ==
    IF p \in EndpointNames THEN JsStr("/api/benchmark/" \o p) ELSE JsUndefined

\* Object.keys(PROVIDER_ENDPOINTS), in insertion order
EndpointKeys == <<"cerebras", "fireworks", "groq">>

ProviderModel(p) ==
    CASE p = "cerebras"  -> "llama-3.3-70b"
      [] p = "fireworks" -> "accounts/fireworks/models/llama-v3p3-70b-instruct"
      [] p = "groq"      -> "llama-3.3-70b-versatile"
      [] OTHER           -> "unknown"


-----------------------------------------------------------------------------
(* Thrown values *)
Err(msg)    == [t |-> "Error", message |-> msg]     \* an Error (or subclass)
NonError    == [t |-> "thrown", message |-> ""]     \* throw of a non-Error value
IsError(e)  == e.t = "Error"

\* BenchmarkError(`${envVar} not configured`, "CONFIG_ERROR")
ConfigError(envVar) == Err(envVar \o " not configured")
\* createApiError(provider, status, body)
createApiError(name, status, body) ==
    Err(name \o " API error: " \o status \o " - " \o body)

\* Math.round(num / den) for num >= 0, den > 0 (round half up)
MathRound(num, den) == (2 * num + den) \div (2 * den)
\* Math.round of a time kept in half-milliseconds
RoundMs(h) == MathRound(h, 2)

-----------------------------------------------------------------------------
(* The metrics accumulator (lib/benchmark-utils.ts) *)
createStreamMetrics(t) ==
    [startTime           |-> t,
     firstTokenTime      |-> JsNull,
     timeToHundredTokens |-> JsNull,
     tokenCount          |-> 0,
     fullResponse        |-> 0]

\* mutant: the estimate rounds down
estimateTokenCount_Floor(len) == len \div CHARS_PER_TOKEN

\* Math.ceil(text.length / CHARS_PER_TOKEN)
estimateTokenCount(len) == (len + CHARS_PER_TOKEN - 1) \div CHARS_PER_TOKEN

\* mutant: the 100-token time is taken again by every update past the threshold
updateMetrics_RestampHundred(m, len, t) ==
    LET full  == m.fullResponse + len
        count == (full + CHARS_PER_TOKEN - 1) \div CHARS_PER_TOKEN
    IN  [startTime           |-> m.startTime,
         firstTokenTime      |-> IF m.firstTokenTime = JsNull THEN JsNum(t)
                                 ELSE m.firstTokenTime,
         timeToHundredTokens |-> IF count >= TOKEN_THRESHOLD_FOR_METRICS
                                 THEN JsNum(t - m.startTime)
                                 ELSE m.timeToHundredTokens,
         tokenCount          |-> count,
         fullResponse        |-> full]

\* mutant: the first-token timestamp is taken on every update
updateMetrics_AlwaysStamp(m, len, t) ==
    LET full  == m.fullResponse + len
        count == (full + CHARS_PER_TOKEN - 1) \div CHARS_PER_TOKEN
    IN  [startTime           |-> m.startTime,
         firstTokenTime      |-> JsNum(t),
         timeToHundredTokens |-> IF count >= TOKEN_THRESHOLD_FOR_METRICS
                                    /\ m.timeToHundredTokens = JsNull
                                 THEN JsNum(t - m.startTime)
                                 ELSE m.timeToHundredTokens,
         tokenCount          |-> count,
         fullResponse        |-> full]

\* updateMetrics(metrics, content) at clock reading t; len = content.length
updateMetrics(m, len, t) ==
    LET first == IF m.firstTokenTime = JsNull THEN JsNum(t) ELSE m.firstTokenTime
        full  == m.fullResponse + len
        count == estimateTokenCount(full)
        t100  == IF count >= TOKEN_THRESHOLD_FOR_METRICS /\ m.timeToHundredTokens = JsNull
                 THEN JsNum(t - m.startTime)
                 ELSE m.timeToHundredTokens
    IN  [startTime           |-> m.startTime,
         firstTokenTime      |-> first,
         timeToHundredTokens |-> t100,
         tokenCount          |-> count,
         fullResponse        |-> full]

\* mutant: time to first token is the first token's clock reading itself
calculateBenchmarkMetrics_TtftAbsolute(m, t) ==
    [ttftMs          |-> IF Truthy(m.firstTokenTime) THEN m.firstTokenTime.n
                         ELSE t - m.startTime,
     totalLatencyMs  |-> t - m.startTime,
     tokensPerSecond |-> IF m.tokenCount > 0 /\ t - m.startTime > 0
                         THEN JsRate(m.tokenCount * 2000, t - m.startTime)
                         ELSE JsRate(0, 1),
     throughputFirst100 |->
         IF Truthy(m.timeToHundredTokens)
         THEN JsRate(TOKEN_THRESHOLD_FOR_METRICS * 2000, m.timeToHundredTokens.n)
         ELSE JsNull]

\* mutant: without a first token the time to first token is reported as 0
calculateBenchmarkMetrics_NoTokenNoTtft(m, t) ==
    [ttftMs          |-> IF Truthy(m.firstTokenTime) THEN m.firstTokenTime.n - m.startTime
                         ELSE 0,
     totalLatencyMs  |-> t - m.startTime,
     tokensPerSecond |-> IF m.tokenCount > 0 /\ t - m.startTime > 0
                         THEN JsRate(m.tokenCount * 2000, t - m.startTime)
                         ELSE JsRate(0, 1),
     throughputFirst100 |->
         IF Truthy(m.timeToHundredTokens)
         THEN JsRate(TOKEN_THRESHOLD_FOR_METRICS * 2000, m.timeToHundredTokens.n)
         ELSE JsNull]

\* calculateBenchmarkMetrics(metrics) at clock reading t.  Times stay in
\* half-ms; the two rates are the exact quotients num/den (per second).
calculateBenchmarkMetrics(m, t) ==
    LET endTime == t
        ttft    == IF Truthy(m.firstTokenTime)
                   THEN m.firstTokenTime.n - m.startTime
                   ELSE endTime - m.startTime
        total   == endTime - m.startTime
    IN  [ttftMs          |-> ttft,
         totalLatencyMs  |-> total,
         tokensPerSecond |-> IF m.tokenCount > 0 /\ total > 0
                             THEN JsRate(m.tokenCount * 2000, total)
                             ELSE JsRate(0, 1),
         throughputFirst100 |->
             IF Truthy(m.timeToHundredTokens)
             THEN JsRate(TOKEN_THRESHOLD_FOR_METRICS * 2000, m.timeToHundredTokens.n)
             ELSE JsNull]

\* roundToOneDecimal(num/den), in tenths
roundToOneDecimal(q) == MathRound(q.num * 10, q.den)

buildSuccessResult(provider, model, m, t) ==
    LET calculated == calculateBenchmarkMetrics(m, t)
        base == [provider          |-> provider,
                 model             |-> model,
                 ttft_ms           |-> RoundMs(calculated.ttftMs),
                 tokens_per_second |-> roundToOneDecimal(calculated.tokensPerSecond),
                 total_latency_ms  |-> RoundMs(calculated.totalLatencyMs),
                 token_count       |-> m.tokenCount]
        t100 == IF Truthy(m.timeToHundredTokens)
                THEN "time_to_100_tokens_ms" :> RoundMs(m.timeToHundredTokens.n)
                ELSE <<>>
        tf   == IF Truthy(calculated.throughputFirst100)
                THEN "throughput_first_100" :> roundToOneDecimal(calculated.throughputFirst100)
                ELSE <<>>
    IN  base @@ t100 @@ tf

\* mutant: the elapsed time is reported as time to first token as well
buildErrorResult_TtftIsLatency(provider, model, error, startTime, t) ==
    [provider          |-> provider,
     model             |-> model,
     ttft_ms           |-> RoundMs(t - startTime),
     tokens_per_second |-> 0,
     total_latency_ms  |-> RoundMs(t - startTime),
     token_count       |-> 0,
     error             |-> IF IsError(error) THEN error.message ELSE "Unknown error"]

buildErrorResult(provider, model, error, startTime, t) ==
    LET totalLatencyMs == t - startTime
        errorMessage   == IF IsError(error) THEN error.message ELSE "Unknown error"
    IN  [provider          |-> provider,
         model             |-> model,
         ttft_ms           |-> 0,
         tokens_per_second |-> 0,
         total_latency_ms  |-> RoundMs(totalLatencyMs),
         token_count       |-> 0,
         error             |-> errorMessage]

\* mutant: the key is handed on unchecked
getRequiredApiKey_Unchecked(envVar, key) == [ok |-> TRUE, key |-> key]

\* getRequiredApiKey: the key, or the thrown BenchmarkError
getRequiredApiKey(envVar, key) ==
    IF ~Truthy(key) THEN [ok |-> FALSE, thrown |-> ConfigError(envVar)]
                    ELSE [ok |-> TRUE, key |-> key]

-----------------------------------------------------------------------------
(* What a single-provider route can answer to the orchestrator's sub-request. *)
(* The orchestrator reads only the JSON body; the bodies below are the        *)
(* results of bounded runs of the route: a run that fails with error e after  *)
(* d half-ms, and a run that receives one one-character chunk after d1 and    *)
(* ends after MaxElapsed.  The clock starts at 1.                             *)
EnvVarOf(p) ==
    CASE p = "cerebras"  -> "CEREBRAS_API_KEY"
      [] p = "fireworks" -> "FIREWORKS_API_KEY"
      [] OTHER           -> "GROQ_API_KEY"

RouteErrors(p) == { ConfigError(EnvVarOf(p)), Err("terminated") }

RouteBodies(p) ==
    { buildErrorResult(p, ProviderModel(p), e, 1, 1 + d) :
          e \in RouteErrors(p), d \in {0, MaxElapsed} }
    \cup
    { buildSuccessResult(p, ProviderModel(p),
                         updateMetrics(createStreamMetrics(1), 1, 1 + d1),
                         1 + MaxElapsed) : d1 \in 0..MaxElapsed }

\* the groq route, /api/benchmark/groq
GroqRouteBodies == RouteBodies("groq")

HandlerBodies(p) == IF p = "groq" THEN GroqRouteBodies ELSE RouteBodies(p)

-----------------------------------------------------------------------------
(* The orchestrator, POST /api/benchmark *)
Prompts == {JsUndefined, JsStr(""), JsStr("hi"), JsNum(7)}

RECURSIVE SeqsUpTo(_, _)
SeqsUpTo(S, n) ==
    IF n = 0 THEN {<<>>}
    ELSE LET shorter == SeqsUpTo(S, n - 1)
         IN  shorter \cup {Append(s, x) : s \in shorter, x \in S}

ProviderInputs ==
    {JsUndefined, JsStr("cerebras")} \cup {JsArr(s) : s \in SeqsUpTo(ProviderIds, MaxProviders)}

OrchBodies ==
    {Unparseable, JsNull, JsNum(5)} \cup
    { [t |-> "object", prompt |-> pr, max_tokens |-> mt, providers |-> ps] :
          pr \in Prompts, mt \in {JsUndefined, JsNum(64)}, ps \in ProviderInputs }

\* mutant: only an absent prompt is refused
PromptMissing_UndefinedOnly(prompt) == prompt = JsUndefined

\* if (!prompt)
PromptMissing(prompt) == ~Truthy(prompt)

\* providers && providers.length > 0 ? providers : Object.keys(PROVIDER_ENDPOINTS)
SelectProviders(providers) ==
    IF Truthy(providers) /\ JsLength(providers) > 0
    THEN providers
    ELSE JsArr(EndpointKeys)

\* the error-only result the orchestrator builds itself
OrchErrorResult(provider, message) ==
    [provider          |-> provider,
     model             |-> "unknown",
     ttft_ms           |-> 0,
     tokens_per_second |-> 0,
     total_latency_ms  |-> 0,
     token_count       |-> 0,
     error             |-> message]

Pending        == [state |-> "pending"]
Fulfilled(v)   == [state |-> "fulfilled", value |-> v]
Rejected(e)    == [state |-> "rejected", reason |-> e]

\* the synchronous part of the async callback of selectedProviders.map
StartCall(provider) ==
    IF ~Truthy(PROVIDER_ENDPOINTS(provider))
    THEN Fulfilled(OrchErrorResult(provider, "Unknown provider: " \o provider))
    ELSE Pending

\* the outcomes of fetch(...) followed by response.json()
SubOutcomes(p) ==
    {[kind |-> "fetchThrows", thrown |-> Err("fetch failed")],
     [kind |-> "fetchThrows", thrown |-> NonError],
     [kind |-> "jsonThrows",  thrown |-> Err("Unexpected token < in JSON at position 0")]}
    \cup {[kind |-> "json", body |-> b] : b \in HandlerBodies(p)}

\* mutant: the error result of a failed sub-request is not keyed by the provider
CallValue_Unkeyed(provider, outcome) ==
    IF outcome.kind = "json"
    THEN outcome.body
    ELSE OrchErrorResult("unknown",
             IF IsError(outcome.thrown) THEN outcome.thrown.message ELSE "Request failed")

\* the value the callback's promise is fulfilled with
CallValue(provider, outcome) ==
    IF outcome.kind = "json"
    THEN outcome.body
    ELSE OrchErrorResult(provider,
             IF IsError(outcome.thrown) THEN outcome.thrown.message ELSE "Request failed")

\* settledResults.map((settled, index) => ...)
SettledToResult(settled, provider) ==
    IF settled.state = "fulfilled"
    THEN settled.value
    ELSE OrchErrorResult(provider,
             IF Truthy(JsStr(settled.reason.message)) THEN settled.reason.message
             ELSE "Promise rejected")

\* a.error as a condition
ErrorTruthy(r) == Has(r, "error") /\ Truthy(JsStr(r.error))

\* mutant: the comparator looks at ttft_ms alone
SortCmp_TtftOnly(a, b) == a.ttft_ms - b.ttft_ms

\* the comparator of results.sort
SortCmp(a, b) ==
    IF ErrorTruthy(a) /\ ~ErrorTruthy(b) THEN 1
    ELSE IF ~ErrorTruthy(a) /\ ErrorTruthy(b) THEN -1
    ELSE a.ttft_ms - b.ttft_ms

\* Array.prototype.sort with a comparator: stable; insertion from the right
RECURSIVE InsertByCmp(_, _)
InsertByCmp(sorted, x) ==
    IF sorted = <<>> THEN <<x>>
    ELSE LET last == sorted[Len(sorted)]
         IN  IF SortCmp(last, x) > 0
             THEN Append(InsertByCmp(SubSeq(sorted, 1, Len(sorted) - 1), x), last)
             ELSE Append(sorted, x)

RECURSIVE SortResults(_)
SortResults(s) ==
    IF s = <<>> THEN <<>>
    ELSE InsertByCmp(SortResults(SubSeq(s, 1, Len(s) - 1)), s[Len(s)])

\* Promise.allSettled(benchmarkPromises) has resolved
AllSettled(cs) == \A i \in DOMAIN cs : cs[i].state # "pending"

JsonResponse(status, body) == [status |-> status, body |-> body]

OrchReceive(body) ==
    /\ opc = "idle"
    /\ obody' = body
    /\ IF ~Destructurable(body)
       THEN \* request.json() rejects, or destructuring null throws: outer catch
            /\ oresp' = JsonResponse(500, [error |-> "invalid request body"])
            /\ opc' = "done"
            /\ UNCHANGED <<selected, calls, handlerSent, subRequests>>
       ELSE IF PromptMissing(BodyField(body, "prompt"))
       THEN /\ oresp' = JsonResponse(400, [error |-> "prompt is required"])
            /\ opc' = "done"
            /\ UNCHANGED <<selected, calls, handlerSent, subRequests>>
       ELSE LET sel == SelectProviders(BodyField(body, "providers")) IN
            IF sel.t # "array"
            THEN \* selectedProviders.map is not a function: outer catch
                 /\ oresp' = JsonResponse(500, [error |-> "selectedProviders.map is not a function"])
                 /\ opc' = "done"
                 /\ UNCHANGED <<selected, calls, handlerSent, subRequests>>
            ELSE /\ selected' = sel.a
                 /\ calls' = [i \in 1..Len(sel.a) |-> StartCall(sel.a[i])]
                 /\ handlerSent' = [i \in 1..Len(sel.a) |-> NoBody]
                 /\ subRequests' = {[index |-> j, url |-> PROVIDER_ENDPOINTS(sel.a[j]).s] :
                                        j \in {k \in 1..Len(sel.a) :
                                                  Truthy(PROVIDER_ENDPOINTS(sel.a[k]))}}
                 /\ opc' = "awaiting"
                 /\ UNCHANGED oresp
    /\ UNCHANGED <<cvars, now, xvars>>

\* the sub-request of call i completes (or fails) and its callback returns
OrchSettle(i, outcome) ==
    /\ opc = "awaiting"
    /\ i \in DOMAIN calls
    /\ calls[i].state = "pending"
    /\ calls' = [calls EXCEPT ![i] = Fulfilled(CallValue(selected[i], outcome))]
    /\ handlerSent' = [handlerSent EXCEPT ![i] =
                          IF outcome.kind = "json" THEN outcome.body ELSE NoBody]
    /\ UNCHANGED <<opc, obody, selected, subRequests, oresp, cvars, now, xvars>>

\* mutant: one failed provider turns the whole batch into failures (Promise.all)
OrchResults_AbortOnError(cs, sel) ==
    LET rs == [i \in 1..Len(sel) |-> SettledToResult(cs[i], sel[i])]
    IN  IF \E i \in 1..Len(sel) : ErrorTruthy(rs[i])
        THEN SortResults([i \in 1..Len(sel) |-> OrchErrorResult(sel[i], "Request failed")])
        ELSE SortResults(rs)

OrchResults(cs, sel) ==
    SortResults([i \in 1..Len(sel) |-> SettledToResult(cs[i], sel[i])])

\* mutant: a provider's failure becomes a failure of the orchestrator
OrchResponse_FailOnProviderError(cs, sel, body, t) ==
    IF \E i \in 1..Len(sel) : ErrorTruthy(SettledToResult(cs[i], sel[i]))
    THEN JsonResponse(500, [error |-> "Request failed"])
    ELSE JsonResponse(200,
            [results    |-> OrchResults(cs, sel),
             prompt     |-> BodyField(body, "prompt"),
             max_tokens |-> IF Truthy(BodyField(body, "max_tokens"))
                           THEN BodyField(body, "max_tokens")
                            ELSE JsNum(MAX_TOKENS),
             timestamp  |-> t])

\* the response once Promise.allSettled has resolved
OrchResponse(cs, sel, body, t) ==
    JsonResponse(200,
        [results    |-> OrchResults(cs, sel),
         prompt     |-> BodyField(body, "prompt"),
         max_tokens |-> IF Truthy(BodyField(body, "max_tokens"))
                           THEN BodyField(body, "max_tokens")
                        ELSE JsNum(MAX_TOKENS),
         timestamp  |-> t])

OrchRespond ==
    /\ opc = "awaiting"
    /\ AllSettled(calls)
    /\ oresp' = OrchResponse(calls, selected, obody, now)
    /\ opc' = "done"
    /\ UNCHANGED <<obody, selected, calls, handlerSent, subRequests, cvars, now, xvars>>

CallIdle ==
    /\ cpc = "idle"
    /\ cprovider = "none"
    /\ rbody = NoRequest
    /\ envKey = JsUndefined
    /\ metrics = createStreamMetrics(0)
    /\ upstreamCalls = 0
    /\ credLookups = 0
    /\ chunksSeen = 0
    /\ rresp = NoResponse
    /\ escaped = FALSE
    /\ caught = NoBody
    /\ callResult = NoBody
    /\ caller = "none"

OrchIdle ==
    /\ opc = "idle"
    /\ obody = NoRequest
    /\ selected = <<>>
    /\ calls = <<>>
    /\ handlerSent = <<>>
    /\ subRequests = {}
    /\ oresp = NoResponse

ReaderIdle ==
    /\ rdpc = "idle"
    /\ wire = ""
    /\ buffer = ""
    /\ lines = <<>>
    /\ inTail = FALSE
    /\ yielded = <<>>
    /\ readerLock = "none"
    /\ releaseCalls = 0
    /\ parsedLog = {}
    /\ stream = ""
    /\ decoderPending = ""

RaceIdle ==
    /\ apc = "idle"
    /\ aresp = NoResponse
    /\ abody = NoRequest
    /\ raceKey = JsUndefined
    /\ stepIndex = 0
    /\ stepStart = 0
    /\ previousOutput = ""
    /\ totalLatency = 0
    /\ hasError = FALSE
    /\ events = <<>>
    /\ providerCalls = <<>>
    /\ callOutcomes = <<>>
    /\ channel = "none"
    /\ closeCalls = 0
    /\ emitFailed = FALSE

MockIdle ==
    /\ mpc = "idle"
    /\ mbody = NoRequest
    /\ mqueue = <<>>
    /\ mresults = <<>>
    /\ mresp = NoResponse
    /\ randomStream = <<>>
    /\ randomCalls = 0

\* a browser that has not opened the page and stores nothing
PageUnmounted ==
    /\ bpc = "unmounted"
    /\ demoMode = FALSE
    /\ isLoading = FALSE
    /\ bendpoint = "none"
    /\ results = <<>>
    /\ isMockData = FALSE
    /\ savedResults = <<>>
    /\ lastRun = JsNull
    /\ storage = NoBody
    /\ wallClock = 0
    /\ runLog = <<>>

\* the race view before any race
NoRace ==
    /\ isRacing = FALSE
    /\ raceWinner = JsNull
    /\ agentRaces = <<>>
    /\ selectedAgentProviders = <<"cerebras", "groq">>
    /\ cstate = [p \in {"cerebras", "groq", "fireworks"} |-> "idle"]
    /\ cstream = [p \in {"cerebras", "groq", "fireworks"} |-> <<>>]
    /\ handledLog = [p \in {"cerebras", "groq", "fireworks"} |-> <<>>]
    /\ finishOrder = <<>>
    /\ raceAwait = "none"

Init == /\ OrchIdle /\ CallIdle /\ ReaderIdle /\ RaceIdle /\ MockIdle /\ PageUnmounted
        /\ NoRace /\ now = 1

Next ==
    \/ \E body \in OrchBodies : OrchReceive(body)
    \/ \E i \in DOMAIN calls : \E o \in SubOutcomes(selected[i]) : OrchSettle(i, o)
    \/ OrchRespond

Spec == Init /\ [][Next]_vars

\* Every sub-request settles (with a response or a failure) and the event loop
\* resumes the handler once Promise.allSettled has resolved.
FairSpec ==
    /\ Spec
    /\ WF_vars(OrchRespond)
    /\ WF_vars(\E i \in DOMAIN calls : \E o \in SubOutcomes(selected[i]) : OrchSettle(i, o))

\* Under FairSpec a request that was fanned out is answered, whichever calls fail.
OrchEventuallyResponds == (opc = "awaiting") ~> (opc = "done")

-----------------------------------------------------------------------------
(* Properties of the orchestrator, checked under Spec *)
Responded200 == opc = "done" /\ oresp.status = 200
Results      == oresp.body.results

\* the request carried a prompt and an explicit, non-empty list of providers
ExplicitRequest ==
    /\ obody.t = "object"
    /\ Truthy(obody.prompt)
    /\ obody.providers.t = "array"
    /\ Len(obody.providers.a) > 0

CountProvider(rs, p) == Cardinality({i \in DOMAIN rs : rs[i].provider = p})
CountId(ids, p)      == Cardinality({i \in DOMAIN ids : ids[i] = p})

\* C1: a request with a prompt and a list of provider identifiers is answered
\* with exactly one result per requested identifier: the results array has the
\* length of the request list and every identifier is the provider of as many
\* entries as it has occurrences in the list, whatever the calls did.
C1_OnePerRequested ==
    (opc = "done" /\ ExplicitRequest) =>
        /\ oresp.status = 200
        /\ Len(Results) = Len(obody.providers.a)
        /\ \A p \in ProviderIds :
               CountProvider(Results, p) = CountId(obody.providers.a, p)

\* every call of a request for two or more providers failed, one of them
\* without its route answering at all
C1_Witness ==
    /\ Responded200
    /\ ExplicitRequest
    /\ Len(Results) >= 2
    /\ \A i \in DOMAIN Results : Has(Results[i], "error")
    /\ \E i \in DOMAIN handlerSent : handlerSent[i] = NoBody

\* C2: in the returned array no entry carrying an error precedes an error-free
\* entry, and the error-free entries are in ascending ttft_ms order.
C2_SortedErrorsLast ==
    Responded200 =>
        \A i, j \in DOMAIN Results :
            i < j =>
                /\ ~(Has(Results[i], "error") /\ ~Has(Results[j], "error"))
                /\ (~Has(Results[i], "error") /\ ~Has(Results[j], "error"))
                       => Results[i].ttft_ms <= Results[j].ttft_ms

\* an error entry (ttft_ms 0) behind two error-free entries of different ttft_ms,
\* where the calls were not listed in that order
C2_Witness ==
    /\ Responded200
    /\ Len(Results) >= 3
    /\ Has(Results[3], "error")
    /\ ~Has(Results[1], "error") /\ ~Has(Results[2], "error")
    /\ Results[1].ttft_ms < Results[2].ttft_ms
    /\ Results # [i \in 1..Len(selected) |-> SettledToResult(calls[i], selected[i])]

CountEqual(rs, r)  == Cardinality({i \in DOMAIN rs : rs[i] = r})

\* C3: the response is sent only when every call has settled, and what each
\* provider's route answered is in the results unchanged (as many times as it
\* was answered), whatever the other calls did.
C3_AllSettledUncorrupted ==
    Responded200 =>
        /\ AllSettled(calls)
        /\ \A i \in DOMAIN handlerSent :
               handlerSent[i] # NoBody =>
                   CountEqual(Results, handlerSent[i]) = CountEqual(handlerSent, handlerSent[i])

\* one call failed at the network, another one's route answered with metrics
C3_Witness ==
    /\ Responded200
    /\ \E i, j \in DOMAIN handlerSent :
           /\ handlerSent[i] = NoBody
           /\ Truthy(PROVIDER_ENDPOINTS(selected[i]))
           /\ handlerSent[j] # NoBody
           /\ ~Has(handlerSent[j], "error")
           /\ \E k \in DOMAIN Results : Results[k] = handlerSent[j]

\* C6: a request whose prompt is missing or empty is answered 400
\* {error: "prompt is required"} at once, and no sub-request is issued.
C6_MissingPrompt400 ==
    (Destructurable(obody) /\ BodyField(obody, "prompt") \in {JsUndefined, JsStr("")}) =>
        /\ opc = "done"
        /\ oresp = JsonResponse(400, [error |-> "prompt is required"])
        /\ subRequests = {}
        /\ calls = <<>>

\* an empty prompt together with a list of known providers
C6_Witness ==
    /\ opc = "done"
    /\ obody.t = "object"
    /\ obody.prompt = JsStr("")
    /\ obody.providers.t = "array"
    /\ Len(obody.providers.a) > 0
    /\ \A i \in DOMAIN obody.providers.a : obody.providers.a[i] \in EndpointNames

\* C7 as claimed: every response is a 400 for a missing prompt or a success
\* carrying the results array.
C7_Only400OrSuccess ==
    opc = "done" =>
        \/ (oresp.status = 400 /\ ~Truthy(BodyField(obody, "prompt")))
        \/ (oresp.status = 200 /\ Has(oresp.body, "results"))

\* the body is not JSON, or is null: reading it throws
BodyUnusable == ~Destructurable(obody)
\* providers is given, has a positive length and is no array
ProvidersNotArray ==
    /\ obody.t = "object"
    /\ Truthy(obody.prompt)
    /\ Truthy(obody.providers)
    /\ JsLength(obody.providers) > 0
    /\ obody.providers.t # "array"

\* C7 amended: the response is 500 {error} exactly when the body is not JSON
\* or is null, or providers is a non-array of positive length; 400 exactly
\* when the prompt of a readable body is missing; and otherwise 200 with one
\* result per selected provider: no outcome of a provider call changes the
\* status.
C7_StatusByInputOnly ==
    opc = "done" =>
        /\ oresp.status \in {200, 400, 500}
        /\ (oresp.status = 500) <=> (BodyUnusable \/ ProvidersNotArray)
        /\ (oresp.status = 400) <=>
               (Destructurable(obody) /\ ~Truthy(BodyField(obody, "prompt")))
        /\ (oresp.status # 200) => (Has(oresp.body, "error") /\ calls = <<>>)
        /\ (oresp.status = 200) =>
               /\ Has(oresp.body, "results")
               /\ Len(Results) = Len(selected)

\* a body that cannot be parsed is answered 500
C7_Witness ==
    /\ opc = "done"
    /\ obody = Unparseable
    /\ oresp.status = 500

-----------------------------------------------------------------------------
(* One per-provider call: the single-provider route (cerebras: SDK stream,   *)
(* fireworks: HTTP stream), posted to by a client directly or by the         *)
(* orchestrator's callback.                                                  *)
RouteNames == {"cerebras", "fireworks"}

EnvKeys == {JsUndefined, JsStr(""), JsStr("sk-1")}

\* bodies a client may post to a route
RouteRequestBodies ==
    {Unparseable, JsNull, JsNum(5)} \cup
    { [t |-> "object", prompt |-> pr, max_tokens |-> JsUndefined] : pr \in Prompts }

\* JSON.stringify({ prompt, max_tokens }) as the route parses it back
ForwardedBody(prompt, max_tokens) ==
    [t |-> "object", prompt |-> prompt, max_tokens |-> max_tokens]

\* the lengths of the non-empty content strings an upstream sends
ChunkLens == {1, (TOKEN_THRESHOLD_FOR_METRICS - 1) * CHARS_PER_TOKEN}

\* what one step of the upstream stream carries as delta content
StreamItems(p) ==
    IF p = "cerebras"
    THEN {JsUndefined, JsText(0)} \cup {JsText(n) : n \in ChunkLens}
    ELSE \* createStreamReader yields only the truthy results of parseSSELine
         {JsText(n) : n \in ChunkLens}

\* how the upstream call (fetch / client.chat.completions.create) settles
UpstreamOutcomes(p) ==
    IF p = "cerebras"
    THEN {[kind |-> "throws", thrown |-> Err("Connection error.")],
          [kind |-> "throws", thrown |-> Err("401 Incorrect API key")],
          [kind |-> "stream"]}
    ELSE {[kind |-> "throws", thrown |-> Err("fetch failed")],
          [kind |-> "throws", thrown |-> NonError],
          [kind |-> "notOk", status |-> "500", text |-> "overloaded"],
          [kind |-> "noBody"],
          [kind |-> "stream"]}

\* errors raised while the stream is iterated
StreamErrors == {Err("terminated")}

\* mutant: the catch block rethrows
RouteCatch_Rethrow(p, error, startTime, t) == [escaped |-> TRUE, resp |-> NoResponse]

\* the catch block of a route's POST
RouteCatch(p, error, startTime, t) ==
    [escaped |-> FALSE,
     resp    |-> JsonResponse(200, buildErrorResult(p, ProviderModel(p), error, startTime, t))]

\* the route's POST ends with the given outcome of its catch block
RouteCaught(p, error) ==
    LET c == RouteCatch(p, error, metrics.startTime, now)
    IN  /\ rresp' = c.resp
        /\ escaped' = c.escaped
        /\ caught' = error
        /\ cpc' = "route_done"

ClientPost(p, body, key) ==
    /\ cpc = "idle"
    /\ caller' = "client"
    /\ cprovider' = p
    /\ rbody' = body
    /\ envKey' = key
    /\ metrics' = createStreamMetrics(now)
    /\ cpc' = "route_json"
    /\ UNCHANGED <<upstreamCalls, credLookups, chunksSeen, rresp, escaped, caught,
                   callResult, ovars, now, xvars>>

\* the orchestrator's callback for one provider: lines 30-66
OrchCall(p, prompt, key) ==
    /\ cpc = "idle"
    /\ caller' = "orchestrator"
    /\ cprovider' = p
    /\ envKey' = key
    /\ LET started == StartCall(p) IN
       IF started.state = "fulfilled"
       THEN /\ callResult' = started.value
            /\ cpc' = "call_done"
            /\ UNCHANGED <<rbody, metrics>>
       ELSE /\ rbody' = ForwardedBody(prompt, JsUndefined)
            /\ cpc' = "sub_fetch"
            /\ UNCHANGED <<callResult, metrics>>
    /\ UNCHANGED <<upstreamCalls, credLookups, chunksSeen, rresp, escaped, caught,
                   ovars, now, xvars>>

\* the sub-request fails before it reaches the route
SubFetchFails(thrown) ==
    /\ cpc = "sub_fetch"
    /\ callResult' = CallValue(cprovider, [kind |-> "fetchThrows", thrown |-> thrown])
    /\ cpc' = "call_done"
    /\ UNCHANGED <<cprovider, rbody, envKey, metrics, upstreamCalls, credLookups,
                   chunksSeen, rresp, escaped, caught, caller, ovars, now, xvars>>

\* the sub-request reaches the route: createStreamMetrics()
RouteEnter ==
    /\ cpc = "sub_fetch"
    /\ metrics' = createStreamMetrics(now)
    /\ cpc' = "route_json"
    /\ UNCHANGED <<cprovider, rbody, envKey, upstreamCalls, credLookups,
                   chunksSeen, rresp, escaped, caught, callResult, caller, ovars, now, xvars>>

\* request.json() settles; validation, credential lookup, upstream call issued
RouteParsed ==
    /\ cpc = "route_json"
    /\ IF ~Destructurable(rbody)
       THEN \* request.json() rejects, or destructuring null throws
            /\ RouteCaught(cprovider, Err("Unexpected end of JSON input"))
            /\ UNCHANGED <<upstreamCalls, credLookups>>
       ELSE IF PromptMissing(BodyField(rbody, "prompt"))
       THEN /\ rresp' = JsonResponse(400, [error |-> "prompt is required"])
            /\ cpc' = "route_done"
            /\ UNCHANGED <<upstreamCalls, credLookups, escaped, caught>>
       ELSE LET k == getRequiredApiKey(EnvVarOf(cprovider), envKey) IN
            /\ credLookups' = credLookups + 1
            /\ IF ~k.ok
               THEN /\ RouteCaught(cprovider, k.thrown)
                    /\ UNCHANGED upstreamCalls
               ELSE /\ upstreamCalls' = upstreamCalls + 1
                    /\ cpc' = "route_upstream"
                    /\ UNCHANGED <<rresp, escaped, caught>>
    /\ UNCHANGED <<cprovider, rbody, envKey, metrics, chunksSeen, callResult, caller,
                   ovars, now, xvars>>

\* the upstream call settles
UpstreamSettles(outcome) ==
    /\ cpc = "route_upstream"
    /\ CASE outcome.kind = "throws" -> RouteCaught(cprovider, outcome.thrown)
         [] outcome.kind = "notOk"  ->
                RouteCaught(cprovider, createApiError("Fireworks", outcome.status, outcome.text))
         [] outcome.kind = "noBody" -> RouteCaught(cprovider, Err("No response body"))
         [] OTHER -> /\ cpc' = "route_stream"
                     /\ UNCHANGED <<rresp, escaped, caught>>
    /\ UNCHANGED <<cprovider, rbody, envKey, metrics, upstreamCalls, credLookups,
                   chunksSeen, callResult, caller, ovars, now, xvars>>

\* one iteration of the for-await loop
StreamItem(content) ==
    /\ cpc = "route_stream"
    /\ chunksSeen < MaxChunks
    /\ chunksSeen' = chunksSeen + 1
    /\ metrics' = IF Truthy(content) THEN updateMetrics(metrics, content.len, now)
                  ELSE metrics
    /\ UNCHANGED <<cpc, cprovider, rbody, envKey, upstreamCalls, credLookups,
                   rresp, escaped, caught, callResult, caller, ovars, now, xvars>>

\* the stream ends: buildSuccessResult
StreamEnds ==
    /\ cpc = "route_stream"
    /\ rresp' = JsonResponse(200,
                    buildSuccessResult(cprovider, ProviderModel(cprovider), metrics, now))
    /\ cpc' = "route_done"
    /\ UNCHANGED <<cprovider, rbody, envKey, metrics, upstreamCalls, credLookups,
                   chunksSeen, escaped, caught, callResult, caller, ovars, now, xvars>>

\* the iteration throws in the middle of the stream
StreamThrows(thrown) ==
    /\ cpc = "route_stream"
    /\ RouteCaught(cprovider, thrown)
    /\ UNCHANGED <<cprovider, rbody, envKey, metrics, upstreamCalls, credLookups,
                   chunksSeen, callResult, caller, ovars, now, xvars>>

\* the orchestrator's callback resumes: await response.json()
SubResponse ==
    /\ cpc = "route_done"
    /\ caller = "orchestrator"
    /\ callResult' = CallValue(cprovider,
                        IF escaped
                        THEN [kind |-> "jsonThrows",
                              thrown |-> Err("Unexpected token < in JSON at position 0")]
                        ELSE [kind |-> "json", body |-> rresp.body])
    /\ cpc' = "call_done"
    /\ UNCHANGED <<cprovider, rbody, envKey, metrics, upstreamCalls, credLookups,
                   chunksSeen, rresp, escaped, caught, caller, ovars, now, xvars>>

\* time passes while the route is suspended
Tick ==
    /\ cpc \in {"sub_fetch", "route_json", "route_upstream", "route_stream"}
    /\ now < MaxTime
    /\ now' = now + 1
    /\ UNCHANGED <<ovars, cvars, xvars>>

NextCall ==
    \/ \E p \in RouteNames, body \in RouteRequestBodies, key \in EnvKeys :
           ClientPost(p, body, key)
    \/ \E p \in RouteNames \cup {"mistral"}, pr \in {x \in Prompts : ~PromptMissing(x)},
          key \in EnvKeys : OrchCall(p, pr, key)
    \/ \E e \in {Err("fetch failed"), NonError} : SubFetchFails(e)
    \/ RouteEnter
    \/ RouteParsed
    \/ \E o \in UpstreamOutcomes(cprovider) : UpstreamSettles(o)
    \/ \E c \in StreamItems(cprovider) : StreamItem(c)
    \/ StreamEnds
    \/ \E e \in StreamErrors : StreamThrows(e)
    \/ SubResponse
    \/ Tick

SpecCall == Init /\ [][NextCall]_vars

-----------------------------------------------------------------------------
(* Properties of one per-provider call, checked under SpecCall *)

\* C4: no exception leaves a route's POST; once something was thrown inside
\* it, the route has answered 200 with a result of its provider whose error
\* field is set.
C4_RouteNeverThrows ==
    /\ ~escaped
    /\ (caught # NoBody) =>
           /\ cpc \in {"route_done", "call_done"}
           /\ rresp.status = 200
           /\ rresp.body.provider = cprovider
           /\ Has(rresp.body, "error")
           /\ rresp.body.error # ""

\* the stream broke after content had been accumulated
C4_Witness ==
    /\ caught = Err("terminated")
    /\ metrics.tokenCount > 0
    /\ rresp.status = 200
    /\ Has(rresp.body, "error")

\* the results carrying an error that exist in the state
ErrorResults ==
    {r \in (IF rresp.status = 200 THEN {rresp.body} ELSE {})
              \cup (IF callResult # NoBody THEN {callResult} ELSE {}) :
        Has(r, "error")}

ZeroButLatency(r) ==
    /\ r.ttft_ms = 0
    /\ r.tokens_per_second = 0
    /\ r.token_count = 0
    /\ ~Has(r, "time_to_100_tokens_ms")
    /\ ~Has(r, "throughput_first_100")

\* C5 as claimed: a result carrying an error has ttft_ms, tokens_per_second,
\* total_latency_ms and token_count 0 and no 100-token fields.
C5_ErrorAllZero ==
    \A r \in ErrorResults : ZeroButLatency(r) /\ r.total_latency_ms = 0

\* C5 amended: a result carrying an error has ttft_ms, tokens_per_second and
\* token_count 0 and no 100-token fields; total_latency_ms is 0 when the
\* orchestrator built the result and the rounded time from the route's start
\* to the failure when the route built it.
C5_ErrorZeroButLatency ==
    \A r \in ErrorResults :
        /\ ZeroButLatency(r)
        /\ r.total_latency_ms =
              IF rresp.status = 200 /\ r = rresp.body
              THEN RoundMs(now - metrics.startTime)
              ELSE 0

\* the route failed after chunks were accumulated and time had passed, and the
\* orchestrator's promise holds that result
C5_Witness ==
    /\ cpc = "call_done"
    /\ Has(callResult, "error")
    /\ callResult.total_latency_ms > 0
    /\ metrics.tokenCount > 0

\* a prompt that is missing, empty or not a string
PromptInvalid(v) == v.t # "string" \/ v.s = ""

\* C8: once a route has looked at a body whose prompt is missing, empty or
\* not a string, it has answered 400 {error} and has neither resolved the
\* credential nor called the upstream.
C8_InvalidPromptRejected ==
    (Destructurable(rbody) /\ PromptInvalid(BodyField(rbody, "prompt"))
        /\ cpc \in {"route_upstream", "route_stream", "route_done", "call_done"}) =>
        /\ credLookups = 0
        /\ upstreamCalls = 0
        /\ rresp = JsonResponse(400, [error |-> "prompt is required"])

\* C9: when the credential is absent, the route that looked it up has made no
\* upstream call and has answered 200 with the "<ENV_VAR> not configured"
\* error result; nothing was thrown out of the route.
C9_MissingCredential ==
    (credLookups > 0 /\ ~Truthy(envKey)) =>
        /\ upstreamCalls = 0
        /\ ~escaped
        /\ cpc \in {"route_done", "call_done"}
        /\ rresp.status = 200
        /\ rresp.body.provider = cprovider
        /\ Has(rresp.body, "error")
        /\ rresp.body.error = EnvVarOf(cprovider) \o " not configured"

\* the orchestrator's call of the fireworks route without FIREWORKS_API_KEY
C9_Witness ==
    /\ cpc = "call_done"
    /\ envKey = JsUndefined
    /\ credLookups = 1
    /\ Has(callResult, "error")
    /\ callResult.error = "FIREWORKS_API_KEY not configured"

\* C10: firstTokenTime is null exactly as long as no non-empty chunk was
\* received, is set by the update of the first non-empty chunk to the time
\* of that update, and never changes once set.
C10_FirstTokenTimeOnce ==
    /\ [](metrics.firstTokenTime = JsNull <=> metrics.fullResponse = 0)
    /\ [][ /\ (metrics.firstTokenTime # JsNull)
               => (metrics'.firstTokenTime = metrics.firstTokenTime)
           /\ (metrics.firstTokenTime = JsNull /\ metrics'.firstTokenTime # JsNull)
               => (metrics'.firstTokenTime = JsNum(now) /\ metrics'.fullResponse > 0)
         ]_vars

\* an empty chunk, then two non-empty ones, the second later than the first
C10_Witness ==
    /\ cprovider = "cerebras"
    /\ chunksSeen = 3
    /\ metrics.fullResponse = 2
    /\ metrics.firstTokenTime # JsNull
    /\ metrics.firstTokenTime.n > metrics.startTime
    /\ now > metrics.firstTokenTime.n

\* the route has answered with a result built by buildSuccessResult
RouteSucceeded ==
    /\ cpc \in {"route_done", "call_done"}
    /\ rresp.status = 200
    /\ ~Has(rresp.body, "error")

\* C11: timeToHundredTokens is non-null exactly in the states where the
\* estimated token count is at least 100; it is set by the update that takes
\* the estimate from below 100 to 100 or more, to the time elapsed since the
\* start at that update, and once set it never changes.
C11_HundredTokensOnce ==
    /\ [](metrics.timeToHundredTokens # JsNull
            <=> metrics.tokenCount >= TOKEN_THRESHOLD_FOR_METRICS)
    /\ [][ /\ (metrics.timeToHundredTokens # JsNull)
               => (metrics'.timeToHundredTokens = metrics.timeToHundredTokens)
           /\ (metrics.timeToHundredTokens = JsNull /\ metrics'.timeToHundredTokens # JsNull)
               => /\ metrics'.timeToHundredTokens = JsNum(now - metrics.startTime)
                  /\ metrics.tokenCount < TOKEN_THRESHOLD_FOR_METRICS
                  /\ metrics'.tokenCount >= TOKEN_THRESHOLD_FOR_METRICS
         ]_vars

\* the threshold was crossed by the second chunk and a third chunk came later
C11_Witness ==
    /\ chunksSeen = 3
    /\ metrics.tokenCount > TOKEN_THRESHOLD_FOR_METRICS
    /\ metrics.timeToHundredTokens # JsNull
    /\ metrics.timeToHundredTokens.n > 0
    /\ metrics.timeToHundredTokens.n < now - metrics.startTime
    /\ metrics.firstTokenTime.n - metrics.startTime < metrics.timeToHundredTokens.n

\* C12: tokenCount is the ceiling of (accumulated length / CHARS_PER_TOKEN),
\* i.e. the least n with n * CHARS_PER_TOKEN >= length, in every state, and no
\* step decreases it.
C12_TokenCountCeilMonotone ==
    /\ [](/\ metrics.tokenCount * CHARS_PER_TOKEN >= metrics.fullResponse
          /\ (metrics.tokenCount - 1) * CHARS_PER_TOKEN < metrics.fullResponse)
    /\ [][metrics'.tokenCount >= metrics.tokenCount]_vars

\* three updates, the text length not a multiple of CHARS_PER_TOKEN
C12_Witness ==
    /\ chunksSeen = 3
    /\ metrics.fullResponse = 3
    /\ metrics.tokenCount = 1

\* C13: once at least one non-empty chunk was fed to the accumulator, finalizing
\* (at any later moment) yields tokenCount >= 1 and a time to first token that
\* does not exceed the total latency, and the result a route built from it has
\* token_count >= 1 and ttft_ms <= total_latency_ms.
C13_TtftWithinLatency ==
    (metrics.fullResponse > 0) =>
        LET c == calculateBenchmarkMetrics(metrics, now) IN
        /\ metrics.tokenCount >= 1
        /\ c.ttftMs <= c.totalLatencyMs
        /\ RouteSucceeded =>
               /\ rresp.body.token_count >= 1
               /\ rresp.body.ttft_ms <= rresp.body.total_latency_ms

\* a stream of two chunks, the first arriving after the start and the stream
\* ending later still
C13_Witness ==
    /\ RouteSucceeded
    /\ metrics.fullResponse = 2
    /\ rresp.body.ttft_ms > 0
    /\ rresp.body.ttft_ms < rresp.body.total_latency_ms

\* C14: an accumulator finalized without having received a chunk has a time to
\* first token equal to the total latency (the time from its start to now) and
\* tokens per second 0; so has the result a route builds from it.
C14_NoChunkTtftIsLatency ==
    (cpc # "idle" /\ metrics.firstTokenTime = JsNull) =>
        LET c == calculateBenchmarkMetrics(metrics, now) IN
        /\ c.totalLatencyMs = now - metrics.startTime
        /\ c.ttftMs = c.totalLatencyMs
        /\ c.tokensPerSecond = JsRate(0, 1)
        /\ RouteSucceeded =>
               /\ rresp.body.ttft_ms = rresp.body.total_latency_ms
               /\ rresp.body.total_latency_ms = RoundMs(now - metrics.startTime)
               /\ rresp.body.tokens_per_second = 0
               /\ rresp.body.token_count = 0

\* a stream that ended after some time without any content
C14_Witness ==
    /\ RouteSucceeded
    /\ metrics.firstTokenTime = JsNull
    /\ rresp.body.total_latency_ms > 0
    /\ rresp.body.ttft_ms = rresp.body.total_latency_ms

\* C15: the finalized metrics carry a first-100-tokens throughput, and the
\* result a time_to_100_tokens_ms and a throughput_first_100, exactly when the
\* estimated token count reached TOKEN_THRESHOLD_FOR_METRICS during the stream.
C15_HundredFieldsIffReached ==
    RouteSucceeded =>
        LET reached == metrics.tokenCount >= TOKEN_THRESHOLD_FOR_METRICS
            c       == calculateBenchmarkMetrics(metrics, now)
        IN  /\ (c.throughputFirst100 # JsNull) <=> reached
            /\ Has(rresp.body, "time_to_100_tokens_ms") <=> reached
            /\ Has(rresp.body, "throughput_first_100") <=> reached

\* Whenever the 100-token time that was measured is positive, the fields are
\* present exactly when the threshold was reached.
HundredFieldsIffReachedLater ==
    (RouteSucceeded /\ metrics.timeToHundredTokens # JsNum(0)) =>
        LET reached == metrics.tokenCount >= TOKEN_THRESHOLD_FOR_METRICS
        IN  /\ Has(rresp.body, "time_to_100_tokens_ms") <=> reached
            /\ Has(rresp.body, "throughput_first_100") <=> reached

-----------------------------------------------------------------------------
(* The HTTP-chunked stream reader: parseSSELine and createStreamReader        *)
(* (lib/benchmark-utils.ts).  Lines, buffers and the wire are strings; the    *)
(* upstream body is ASCII, so that a decoded read is the text of its bytes.   *)

\* the characters String.prototype.trim removes that occur in the streams
\* (they are the JSON whitespace characters as well)
Whitespace == {" ", "\t", "\r", "\n"}

CharAt(s, i) == SubSeq(s, i, i)

RECURSIVE TrimStart(_)
TrimStart(s) ==
    IF s # "" /\ CharAt(s, 1) \in Whitespace THEN TrimStart(SubSeq(s, 2, Len(s))) ELSE s

RECURSIVE TrimEnd(_)
TrimEnd(s) ==
    IF s # "" /\ CharAt(s, Len(s)) \in Whitespace THEN TrimEnd(SubSeq(s, 1, Len(s) - 1)) ELSE s

\* line.trim()
Trim(s) == TrimEnd(TrimStart(s))

\* s.startsWith(p), s.endsWith(p), s.slice(n)
StartsWith(s, p) == Len(s) >= Len(p) /\ SubSeq(s, 1, Len(p)) = p
EndsWith(s, p)   == Len(s) >= Len(p) /\ SubSeq(s, Len(s) - Len(p) + 1, Len(s)) = p
Slice(s, n)      == SubSeq(s, n + 1, Len(s))

\* s.indexOf("\n") + 1, or 0
NewlineAt(s) ==
    IF \E i \in 1..Len(s) : CharAt(s, i) = "\n"
    THEN CHOOSE i \in 1..Len(s) :
             /\ CharAt(s, i) = "\n"
             /\ \A j \in 1..(i - 1) : CharAt(s, j) # "\n"
    ELSE 0

\* buffer.split("\n")
RECURSIVE SplitLines(_)
SplitLines(s) ==
    LET i == NewlineAt(s)
    IN  IF i = 0 THEN <<s>>
        ELSE <<SubSeq(s, 1, i - 1)>> \o SplitLines(SubSeq(s, i + 1, Len(s)))

(* JSON.parse, for the documents that occur in the streams: a chat-completion *)
(* chunk whose delta content is a scalar, the three documents of JsonTable,   *)
(* and text that is no JSON at all.                                           *)
ChoicesOpen  == "{\"choices\":[{\"delta\":{\"content\":"
ChoicesClose == "}}]}"

\* the characters of a JSON string literal's inside, decoded; escapes \n \" \\
RECURSIVE JsonUnescape(_)
JsonUnescape(s) ==
    IF s = "" THEN [ok |-> TRUE, s |-> ""]
    ELSE IF CharAt(s, 1) = "\\"
    THEN IF Len(s) < 2 THEN [ok |-> FALSE]
         ELSE LET e    == CharAt(s, 2)
                  rest == JsonUnescape(SubSeq(s, 3, Len(s)))
              IN  IF e \notin {"n", "\"", "\\"} \/ ~rest.ok THEN [ok |-> FALSE]
                  ELSE [ok |-> TRUE,
                        s  |-> (IF e = "n" THEN "\n" ELSE e) \o rest.s]
    ELSE IF CharAt(s, 1) \in {"\"", "\n", "\r", "\t"} THEN [ok |-> FALSE]
    ELSE LET rest == JsonUnescape(SubSeq(s, 2, Len(s)))
         IN  IF ~rest.ok THEN [ok |-> FALSE]
             ELSE [ok |-> TRUE, s |-> CharAt(s, 1) \o rest.s]

\* a JSON scalar: a string literal, null, or the number 7
JsonScalar(lit) ==
    IF lit = "null" THEN [ok |-> TRUE, value |-> JsNull]
    ELSE IF lit = "7" THEN [ok |-> TRUE, value |-> JsNum(7)]
    ELSE IF Len(lit) >= 2 /\ CharAt(lit, 1) = "\"" /\ CharAt(lit, Len(lit)) = "\""
    THEN LET u == JsonUnescape(SubSeq(lit, 2, Len(lit) - 1))
         IN  IF u.ok THEN [ok |-> TRUE, value |-> JsStr(u.s)] ELSE [ok |-> FALSE]
    ELSE [ok |-> FALSE]

JsObject == [t |-> "object"]
\* {choices: [{delta: d}]}
ChunkDoc(d) ==
    [t |-> "object", choices |-> JsArr(<<[t |-> "object", delta |-> d]>>)]

JsonParse(text) ==
    LET t == Trim(text)
    IN  CASE t = "null" -> [ok |-> TRUE, value |-> JsNull]
          [] t = "{}"   -> [ok |-> TRUE, value |-> JsObject]
          [] t = "{\"choices\":[]}" ->
                 [ok |-> TRUE, value |-> [t |-> "object", choices |-> JsArr(<<>>)]]
          [] t = "{\"choices\":[{\"delta\":{}}]}" ->
                 [ok |-> TRUE, value |-> ChunkDoc(JsObject)]
          [] /\ StartsWith(t, ChoicesOpen) /\ EndsWith(t, ChoicesClose)
             /\ Len(t) >= Len(ChoicesOpen) + Len(ChoicesClose) ->
                 LET v == JsonScalar(Trim(SubSeq(t, Len(ChoicesOpen) + 1,
                                                 Len(t) - Len(ChoicesClose))))
                 IN  IF v.ok
                     THEN [ok |-> TRUE,
                           value |-> ChunkDoc([t |-> "object", content |-> v.value])]
                     ELSE [ok |-> FALSE]
          [] OTHER -> [ok |-> FALSE]              \* SyntaxError

Nullish(v) == v.t \in {"undefined", "null"}
\* v?.f of an object or a primitive
Member(v, f) ==
    IF v.t = "object" /\ f \in DOMAIN v THEN v[f] ELSE JsUndefined
\* v?.[0]
First(v) ==
    IF v.t = "array" /\ Len(v.a) >= 1 THEN v.a[1] ELSE JsUndefined

\* parsed.choices?.[0]?.delta?.content || null ; parsed.choices of null throws
DeltaContent(parsed) ==
    IF Nullish(parsed) THEN [raised |-> TRUE, value |-> JsNull]
    ELSE LET content == Member(Member(First(Member(parsed, "choices")), "delta"), "content")
         IN  [raised |-> FALSE, value |-> IF Truthy(content) THEN content ELSE JsNull]

\* mutant: the JSON.parse call is not guarded by try/catch
parseSSELine_Unguarded(line) ==
    LET trimmed == Trim(line)
    IN  IF trimmed = "" \/ ~StartsWith(trimmed, "data: ")
        THEN [raised |-> FALSE, value |-> JsNull]
        ELSE LET data == Slice(trimmed, 6)
             IN  IF data = "[DONE]" THEN [raised |-> FALSE, value |-> JsNull]
                 ELSE LET p == JsonParse(data)
                      IN  IF ~p.ok THEN [raised |-> TRUE, value |-> JsNull]
                          ELSE DeltaContent(p.value)

\* parseSSELine(line): the value returned; raised is TRUE iff it throws
parseSSELine(line) ==
    LET trimmed == Trim(line)
    IN  IF trimmed = "" \/ ~StartsWith(trimmed, "data: ")
        THEN [raised |-> FALSE, value |-> JsNull]
        ELSE LET data == Slice(trimmed, 6)
             IN  IF data = "[DONE]" THEN [raised |-> FALSE, value |-> JsNull]
                 ELSE LET p == JsonParse(data)
                      IN  IF ~p.ok \/ DeltaContent(p.value).raised
                          THEN [raised |-> FALSE, value |-> JsNull]      \* catch
                          ELSE DeltaContent(p.value)

(* The lines an upstream sends *)
\* JSON.stringify of a string
RECURSIVE JsonEscape(_)
JsonEscape(s) ==
    IF s = "" THEN ""
    ELSE LET c == CharAt(s, 1)
         IN  (CASE c = "\n" -> "\\n"
                [] c = "\"" -> "\\\""
                [] c = "\\" -> "\\\\"
                [] OTHER    -> c) \o JsonEscape(SubSeq(s, 2, Len(s)))

\* the data line of a chat-completion chunk whose delta content is the string c
ContentLine(c) == "data: " \o ChoicesOpen \o "\"" \o JsonEscape(c) \o "\"" \o ChoicesClose

DoneLine      == "data: [DONE]"
TruncatedLine == "data: {\"choices\":[{\"delta\":{\"content\":\"h"

(* TextDecoder (UTF-8).  A body is a string of bytes: an ASCII byte is written *)
(* as its character, the two bytes 0xC3 0xA9 of U+00E9 as "<" and ">"; in     *)
(* decoded text U+00E9 is written "@" and U+FFFD "?".                         *)
Utf8Lead == "<"
Utf8Cont == ">"

Contents == {"hi", "a\nb", "say \"x\\y\""}

\* a data line, as bytes, whose content has a two-byte character: "caf@"
Utf8ContentLine ==
    "data: " \o ChoicesOpen \o "\"caf" \o Utf8Lead \o Utf8Cont \o "\"" \o ChoicesClose


SSELines ==
    {ContentLine(c) : c \in Contents \cup {""}}
    \cup {DoneLine, TruncatedLine, Utf8ContentLine,
          "", "   ", ": keep-alive", "data: ", "event: message",
          "data: {\"choices\":[{\"delta\":{}}]}",
          "data: {\"choices\":[]}",
          "data: {}",
          "data: null",
          "data: " \o ChoicesOpen \o "7" \o ChoicesClose,
          "data:" \o ChoicesOpen \o "\"hi\"" \o ChoicesClose,
          "  " \o ContentLine("hi") \o "\r",
          "data: [DONE]\r"}

\* the lines that may follow the first line of a body
FollowLines == {ContentLine("ok"), DoneLine, TruncatedLine}

RECURSIVE Bodies(_)
\* the bodies of n lines, joined by "\n"
Bodies(n) ==
    IF n = 1 THEN SSELines
    ELSE {b \o "\n" \o l : b \in Bodies(n - 1), l \in FollowLines}

\* an upstream body: up to MaxLines lines, the last with or without its newline
UpstreamBodies ==
    UNION {{b, b \o "\n"} : b \in UNION {Bodies(n) : n \in 1..MaxLines}}

\* the number of bytes one read() delivers (or whatever is left)
ReadSizes == {1, 25}

\* the text of bytes seen after the held-back bytes pend, and what is held back
RECURSIVE Utf8Scan(_, _)
Utf8Scan(pend, bytes) ==
    IF bytes = "" THEN [text |-> "", pending |-> pend]
    ELSE LET c    == CharAt(bytes, 1)
             rest == SubSeq(bytes, 2, Len(bytes))
             Emit(ch, after) == [after EXCEPT !.text = ch \o @]
         IN  IF pend = Utf8Lead
             THEN IF c = Utf8Cont THEN Emit("@", Utf8Scan("", rest))
                  ELSE Emit("?", Utf8Scan("", bytes))
             ELSE IF c = Utf8Lead THEN Utf8Scan(Utf8Lead, rest)
             ELSE IF c = Utf8Cont THEN Emit("?", Utf8Scan("", rest))
             ELSE Emit(c, Utf8Scan("", rest))

\* mutant: decoder.decode(value), each read decoded on its own
Decode_NoStream(pend, bytes) ==
    LET d == Utf8Scan("", bytes)
    IN  [text |-> d.text \o (IF d.pending = "" THEN "" ELSE "?"), pending |-> ""]

\* decoder.decode(value, { stream: true })
Decode(pend, bytes) == Utf8Scan(pend, bytes)

\* content.length as updateMetrics adds it (a number is appended as its digits)
ContentLength(v) == IF v.t = "string" THEN Len(v.s) ELSE 1

\* The body of the for-of loop over lines, run up to the first yield (or
\* throw): how many lines were looked at and how the run was suspended.
RECURSIVE ScanLines(_)
ScanLines(ls) ==
    IF ls = <<>> THEN [kind |-> "exhausted", n |-> 0]
    ELSE LET r == parseSSELine(Head(ls))
         IN  IF r.raised THEN [kind |-> "raised", n |-> 1]
             ELSE IF Truthy(r.value) THEN [kind |-> "yield", n |-> 1, value |-> r.value]
             ELSE LET rest == ScanLines(Tail(ls))
                  IN  [rest EXCEPT !.n = @ + 1]

\* mutant: the lock is released after the loop only, without try/finally
ReleaseOn_NormalEndOnly(exit) == IF exit = "done" THEN 1 ELSE 0

\* the calls of reader.releaseLock() made when the generator is left with
\* exit "done" (end of the body), "returned" (the consumer's return()) or
\* "threw": the finally block
ReleaseOn(exit) == 1

\* the generator ends
ReaderExit(exit) ==
    /\ rdpc' = exit
    /\ releaseCalls' = releaseCalls + ReleaseOn(exit)
    /\ readerLock' = IF ReleaseOn(exit) > 0 THEN "released" ELSE readerLock

\* the generator runs on over the lines ls until it yields, awaits the next
\* read, or ends
ReaderRun(ls, buf, tail) ==
    LET sc == ScanLines(ls)
    IN  /\ parsedLog' = parsedLog \cup
               {[line |-> ls[i], result |-> parseSSELine(ls[i])] : i \in 1..sc.n}
        /\ buffer' = buf
        /\ inTail' = tail
        /\ lines' = SubSeq(ls, sc.n + 1, Len(ls))
        /\ CASE sc.kind = "yield" ->
                    /\ yielded' = Append(yielded, sc.value)
                    /\ rdpc' = "yielded"
                    /\ UNCHANGED <<readerLock, releaseCalls>>
             [] sc.kind = "raised" ->
                    /\ ReaderExit("threw")
                    /\ UNCHANGED yielded
             [] OTHER ->
                    /\ UNCHANGED yielded
                    /\ IF tail THEN ReaderExit("done")
                       ELSE /\ rdpc' = "reading"
                            /\ UNCHANGED <<readerLock, releaseCalls>>

\* for await (... of createStreamReader(response)): the first next()
ReaderStart(body, hasBody) ==
    /\ rdpc = "idle"
    /\ IF ~hasBody
       THEN \* response.body is null: throws before the try
            /\ rdpc' = "threw"
            /\ UNCHANGED <<wire, stream, decoderPending, stream, readerLock>>
       ELSE /\ rdpc' = "reading"
            /\ wire' = body
            /\ stream' = body
            /\ readerLock' = "locked"
    /\ UNCHANGED <<buffer, lines, inTail, yielded, releaseCalls, parsedLog,
                   decoderPending, ovars, cvars, now, avars, wvars>>

\* reader.read() resolves with the next k characters
ReaderRead(k) ==
    /\ rdpc = "reading"
    /\ wire # ""
    /\ LET n     == IF k < Len(wire) THEN k ELSE Len(wire)
           d     == Decode(decoderPending, SubSeq(wire, 1, n))
           text  == buffer \o d.text
           split == SplitLines(text)
       IN  /\ wire' = SubSeq(wire, n + 1, Len(wire))
           /\ decoderPending' = d.pending
           /\ ReaderRun(SubSeq(split, 1, Len(split) - 1), split[Len(split)], FALSE)
    /\ UNCHANGED <<stream, ovars, cvars, now, avars, wvars>>

\* reader.read() resolves with done: the rest of the buffer is processed
ReaderReadDone ==
    /\ rdpc = "reading"
    /\ wire = ""
    /\ IF Trim(buffer) # ""
       THEN ReaderRun(<<buffer>>, buffer, TRUE)
       ELSE /\ ReaderExit("done")
            /\ UNCHANGED <<buffer, lines, inTail, yielded, parsedLog>>
    /\ UNCHANGED <<wire, stream, decoderPending, ovars, cvars, now, avars, wvars>>

\* reader.read() rejects in the middle of the stream
ReaderReadFails ==
    /\ rdpc = "reading"
    /\ ReaderExit("threw")
    /\ UNCHANGED <<wire, stream, decoderPending, buffer, lines, inTail, yielded,
                   parsedLog, ovars, cvars, now, avars, wvars>>

\* the consumer's loop body (updateMetrics) has run and it asks for the next value
ConsumerNext ==
    /\ rdpc = "yielded"
    /\ metrics' = updateMetrics(metrics, ContentLength(yielded[Len(yielded)]), now)
    /\ ReaderRun(lines, buffer, inTail)
    /\ UNCHANGED <<wire, stream, decoderPending, ovars, now, avars, wvars,
                   cpc, cprovider, rbody, envKey, upstreamCalls, credLookups,
                   chunksSeen, rresp, escaped, caught, callResult, caller>>

\* the consumer leaves its loop early: the generator's return() is called
ConsumerReturn ==
    /\ rdpc = "yielded"
    /\ ReaderExit("returned")
    /\ UNCHANGED <<wire, stream, decoderPending, buffer, lines, inTail, yielded,
                   parsedLog, ovars, cvars, now, avars, wvars>>

NextReader ==
    \/ \E b \in UpstreamBodies, hasBody \in BOOLEAN : ReaderStart(b, hasBody)
    \/ \E k \in ReadSizes : ReaderRead(k)
    \/ ReaderReadDone
    \/ ReaderReadFails
    \/ ConsumerNext
    \/ ConsumerReturn

SpecReader == Init /\ [][NextReader]_vars

-----------------------------------------------------------------------------
(* Properties of the stream reader, checked under SpecReader *)

\* the payload of a trimmed data line
Payload(trimmed) == Slice(trimmed, 6)

\* C16: no application of parseSSELine raises.  A line that is `data: [DONE]`,
\* a line whose payload after `data: ` is not JSON, and a line that (leading
\* and trailing whitespace apart) does not begin with `data: ` give null; the
\* data line of a chunk whose delta content is a non-empty string C gives
\* exactly C.
C16_ParseSSELine ==
    \A e \in parsedLog :
        LET trimmed == Trim(e.line)
            v       == e.result.value
        IN  /\ ~e.result.raised
            /\ (trimmed = DoneLine) => v = JsNull
            /\ ~StartsWith(trimmed, "data: ") => v = JsNull
            /\ (StartsWith(trimmed, "data: ") /\ ~JsonParse(Payload(trimmed)).ok)
                   => v = JsNull
            /\ \A c \in Contents \cup {"ok"} : (e.line = ContentLine(c)) => v = JsStr(c)

\* a content with an escaped newline was extracted, and a line of broken JSON
\* and a [DONE] line were skipped
C16_Witness ==
    /\ \E e \in parsedLog :
           e.line = ContentLine("a\nb") /\ e.result.value = JsStr("a\nb")
    /\ \E e \in parsedLog : e.line = TruncatedLine /\ e.result.value = JsNull
    /\ yielded = <<JsStr("a\nb")>>

\* C17: while the generator is running the reader is locked and releaseLock
\* has not been called; once the generator has ended after acquiring the
\* reader - at the end of the stream, by the consumer's early return, or by a
\* failed read - releaseLock has been called exactly once; and nothing is
\* yielded and nothing released again after the release.
C17_ReleasedExactlyOnce ==
    /\ [](/\ (rdpc \in {"reading", "yielded"}) => (readerLock = "locked" /\ releaseCalls = 0)
          /\ (readerLock = "locked") => rdpc \in {"reading", "yielded"}
          /\ (rdpc \in {"done", "returned", "threw"} /\ readerLock # "none")
                 => (readerLock = "released" /\ releaseCalls = 1)
          /\ (readerLock = "none") => releaseCalls = 0)
    /\ [][(releaseCalls > 0) => (yielded' = yielded /\ releaseCalls' = releaseCalls)]_vars

\* a read failed after a content string was yielded and consumed, with part of
\* the body still undelivered
C17_Witness ==
    /\ rdpc = "threw"
    /\ Len(yielded) = 1
    /\ metrics.fullResponse > 0
    /\ wire # ""
    /\ releaseCalls = 1

\* the consumer left its loop after the first of two content strings
ReaderEarlyExit ==
    /\ rdpc = "returned"
    /\ Len(yielded) = 1
    /\ lines # <<>>
    /\ releaseCalls = 1

IsPrefix(a, b) == Len(a) <= Len(b) /\ SubSeq(b, 1, Len(a)) = a

\* the values a sequence of lines yields: the non-empty contents of its data lines
RECURSIVE YieldsOf(_)
YieldsOf(ls) ==
    IF ls = <<>> THEN <<>>
    ELSE LET v == parseSSELine(Head(ls)).value
         IN  (IF Truthy(v) THEN <<v>> ELSE <<>>) \o YieldsOf(Tail(ls))

\* the character that byte i of the body b contributes to its text: a
\* continuation byte right after a lead byte gives U+00E9, a lead byte before
\* anything else and a continuation byte after anything else give U+FFFD
Utf8CharOf(b, i) ==
    LET c == CharAt(b, i)
    IN  IF c = Utf8Lead
        THEN IF i = Len(b) \/ CharAt(b, i + 1) = Utf8Cont THEN "" ELSE "?"
        ELSE IF c = Utf8Cont
        THEN IF i > 1 /\ CharAt(b, i - 1) = Utf8Lead THEN "@" ELSE "?"
        ELSE c

\* the text of bytes lo..hi of the body b
RECURSIVE Utf8Text(_, _, _)
Utf8Text(b, lo, hi) ==
    IF lo > hi THEN ""
    ELSE IF lo = hi THEN Utf8CharOf(b, lo)
    ELSE LET mid == (lo + hi) \div 2
         IN  Utf8Text(b, lo, mid) \o Utf8Text(b, mid + 1, hi)

\* what the whole body yields, read as one piece: its decoded text cut at the
\* newlines, the last piece counted when it is not blank
WholeStreamYields(bytes) ==
    LET split == SplitLines(Utf8Text(bytes, 1, Len(bytes)))
        tail  == split[Len(split)]
    IN  YieldsOf(SubSeq(split, 1, Len(split) - 1))
            \o (IF Trim(tail) # "" THEN YieldsOf(<<tail>>) ELSE <<>>)

\* C26: whatever the sizes of the reads, the contents yielded so far are an
\* initial part of what the whole body yields read as one piece, and when the
\* generator has come to its end they are all of it: each data line, though
\* split across reads (also inside a character), yields its content once and
\* in stream order, and a last line without newline is still processed.
C26_ChunkingIndependent ==
    /\ IsPrefix(yielded, WholeStreamYields(stream))
    /\ (rdpc = "done") => yielded = WholeStreamYields(stream)

\* a body of two data lines, longer than any read, the first with a two-byte
\* character and the second without its newline, has been read to its end
C26_Witness ==
    /\ rdpc = "done"
    /\ stream = Utf8ContentLine \o "\n" \o ContentLine("ok")
    /\ Len(stream) > 25
    /\ yielded = <<JsStr("caf@"), JsStr("ok")>>

-----------------------------------------------------------------------------
(* The agent-race sequencer, POST /api/agent-race: a chain of five prompts    *)
(* run against one provider, its progress streamed as events.                 *)

\* STEPS: the name of a step and the text around the interpolated input
STEPS ==
    << [name |-> "Research",
        pre  |-> "Find 3 key facts about ",
        post |-> "'s business model, products, and recent news."],
       [name |-> "Summarize",
        pre  |-> "Summarize this research into exactly 3 concise bullet points:\n\n",
        post |-> ""],
       [name |-> "Draft",
        pre  |-> "Write a 3-paragraph cold outreach email based on:\n\n",
        post |-> ""],
       [name |-> "Critique",
        pre  |-> "Critique this email. List 3 specific improvements:\n\n",
        post |-> ""],
       [name |-> "Revise",
        pre  |-> "Revise the email with these improvements:\n\n",
        post |-> ""] >>

\* STEPS[i - 1].prompt(input)
StepPrompt(i, input) == STEPS[i].pre \o input \o STEPS[i].post

RaceProviders == {"cerebras", "groq", "fireworks"}

RECURSIVE Xs(_)
Xs(n) ==
    IF n = 0 THEN ""
    ELSE IF n % 2 = 0 THEN LET half == Xs(n \div 2) IN half \o half
    ELSE "x" \o Xs(n - 1)

\* a content one character longer than the preview
LongContent == Xs(OUTPUT_PREVIEW_LENGTH + 1)

\* what callProvider returns as content ("" when the completion has none)
RaceContents == {"", "facts", LongContent}

\* what callProvider throws once the key is there
RaceErrors(p) ==
    IF p = "cerebras"
    THEN {Err("Connection error.")}
    ELSE {Err("fetch failed"), createApiError(p, "500", "overloaded")}

\* how a call of callProvider settles
CallOutcomes(p, key) ==
    LET k == getRequiredApiKey(EnvVarOf(p), key)
    IN  IF ~k.ok THEN {[kind |-> "throws", thrown |-> k.thrown]}
        ELSE {[kind |-> "content", content |-> c] : c \in RaceContents}
             \cup {[kind |-> "throws", thrown |-> e] : e \in RaceErrors(p)}

RaceBodies ==
    {Unparseable, JsNull} \cup
    { [t |-> "object", provider |-> pv, company |-> co] :
          pv \in {JsUndefined, JsStr("mistral")} \cup {JsStr(q) : q \in RaceProviders},
          co \in {JsUndefined, JsStr(""), JsNum(7), JsStr("Acme")} }

\* !provider || ![...].includes(provider)
ProviderRefused(pv) == ~Truthy(pv) \/ pv.t # "string" \/ pv.s \notin RaceProviders
\* !company || typeof company !== "string"
CompanyRefused(co) == ~Truthy(co) \/ co.t # "string"

\* content.length > OUTPUT_PREVIEW_LENGTH ? content.slice(0, ...) + "..." : content
OutputPreview(content) ==
    IF Len(content) > OUTPUT_PREVIEW_LENGTH
    THEN SubSeq(content, 1, OUTPUT_PREVIEW_LENGTH) \o "..."
    ELSE content

\* error instanceof Error ? error.message : String(error)
ErrorText(e) == IF IsError(e) THEN e.message ELSE "[object Object]"

RunningMsg(i) == [step |-> i, name |-> STEPS[i].name, status |-> "running"]
CompleteMsg(i, latency, content) ==
    [step |-> i, name |-> STEPS[i].name, status |-> "complete",
     latency_ms |-> latency, output_preview |-> OutputPreview(content)]
ErrorMsg(i, e) ==
    [step |-> i, name |-> STEPS[i].name, status |-> "error", error |-> ErrorText(e)]

\* mutant: the terminal event always reports an error
TerminalMsg_AlwaysError(total, err) ==
    [complete |-> TRUE, total_latency_ms |-> total, has_error |-> TRUE]

TerminalMsg(total, err) ==
    [complete |-> TRUE, total_latency_ms |-> total, has_error |-> err]

\* mutant: every step is built from the company input
PromptInput_AlwaysCompany(i, company, prev) == company

\* i === 0 ? step.prompt(company) : step.prompt(previousOutput)
PromptInput(i, company, prev) == IF i = 1 THEN company ELSE prev

\* mutant: a failed step does not end the chain
ChainGoesOn_PastErrors(i, failed) == i < Len(STEPS)

\* the for loop goes on to step i + 1: not after the break of a failed step
ChainGoesOn(i, failed) == ~failed /\ i < Len(STEPS)

\* mutant: the time of a failed step is added to the total as well
TotalAfter_CountFailed(total, ok, latency) == total + latency

\* totalLatency += latency, reached only when the call of the step returned
TotalAfter(total, ok, latency) == IF ok THEN total + latency ELSE total

\* mutant: the channel is closed after the terminal event only, without
\* try/finally
CloseOn_NormalEndOnly(exit) == IF exit = "normal" THEN 1 ELSE 0

\* the calls of controller.close() made when start() leaves its outer try
\* block, "normal" at its end or "threw" by an exception: the finally block
CloseOn(exit) == 1

\* callProvider(provider, prompt, MAX_TOKENS_PER_STEP) as it is called for step i
ProviderCall(i, provider, company, prev) ==
    [step      |-> i,
     provider  |-> provider,
     prompt    |-> StepPrompt(i, PromptInput(i, company, prev)),
     maxTokens |-> MAX_TOKENS_PER_STEP]

RaceResponse(status, body) == [status |-> status, body |-> body]

\* the provider of the race that is running (of no interest before it runs)
RaceProvider == IF providerCalls # <<>> THEN providerCalls[1].provider ELSE "cerebras"

\* the request arrives: validation, the stream is built and its start() runs
\* up to the first await
RacePost(body, key) ==
    /\ apc = "idle"
    /\ abody' = body
    /\ raceKey' = key
    /\ IF ~Destructurable(body)
       THEN /\ aresp' = RaceResponse(500, [error |-> "invalid request body"])
            /\ apc' = "refused"
            /\ UNCHANGED <<stepIndex, stepStart, events, providerCalls, channel>>
       ELSE IF ProviderRefused(BodyField(body, "provider"))
       THEN /\ aresp' = RaceResponse(400,
                 [error |-> "Invalid provider. Must be cerebras, groq, or fireworks"])
            /\ apc' = "refused"
            /\ UNCHANGED <<stepIndex, stepStart, events, providerCalls, channel>>
       ELSE IF CompanyRefused(BodyField(body, "company"))
       THEN /\ aresp' = RaceResponse(400, [error |-> "company is required"])
            /\ apc' = "refused"
            /\ UNCHANGED <<stepIndex, stepStart, events, providerCalls, channel>>
       ELSE /\ aresp' = RaceResponse(200, [stream |-> "text/event-stream"])
            /\ channel' = "open"
            /\ events' = <<RunningMsg(1)>>
            /\ stepIndex' = 1
            /\ stepStart' = now
            /\ providerCalls' = <<ProviderCall(1, body.provider.s, body.company.s,
                                              body.company.s)>>
            /\ apc' = "calling"
    /\ UNCHANGED <<previousOutput, totalLatency, hasError, callOutcomes, closeCalls,
                   emitFailed, ovars, cvars, rvars, now, wvars>>

\* the awaited call of the current step settles and start() runs on to the
\* next await or to its end
RaceCallSettles(outcome) ==
    /\ apc = "calling"
    /\ callOutcomes' = Append(callOutcomes, outcome)
    /\ LET i       == stepIndex
           ok      == outcome.kind = "content"
           latency == RoundMs(now - stepStart)
           total   == TotalAfter(totalLatency, ok, latency)
           prev    == IF ok THEN outcome.content ELSE previousOutput
           stepMsg == IF ok THEN CompleteMsg(i, latency, outcome.content)
                      ELSE ErrorMsg(i, outcome.thrown)
       IN  /\ totalLatency' = total
           /\ previousOutput' = prev
           /\ IF channel # "open"
              THEN \* enqueue throws; so does the enqueue of the catch block and
                   \* the close of the finally block
                   /\ hasError' = TRUE
                   /\ emitFailed' = TRUE
                   /\ closeCalls' = closeCalls + CloseOn("threw")
                   /\ apc' = "ended"
                   /\ UNCHANGED <<events, providerCalls, stepIndex, stepStart, channel>>
              ELSE IF ChainGoesOn(i, ~ok)
              THEN /\ events' = events \o <<stepMsg, RunningMsg(i + 1)>>
                   /\ providerCalls' = Append(providerCalls,
                          ProviderCall(i + 1, abody.provider.s, abody.company.s, prev))
                   /\ stepIndex' = i + 1
                   /\ stepStart' = now
                   /\ hasError' = (hasError \/ ~ok)
                   /\ UNCHANGED <<apc, channel, closeCalls, emitFailed>>
              ELSE /\ events' = events \o <<stepMsg, TerminalMsg(total, hasError \/ ~ok)>>
                   /\ hasError' = (hasError \/ ~ok)
                   /\ closeCalls' = closeCalls + CloseOn("normal")
                   /\ channel' = IF CloseOn("normal") > 0 THEN "closed" ELSE channel
                   /\ apc' = "ended"
                   /\ UNCHANGED <<providerCalls, stepIndex, stepStart, emitFailed>>
    /\ UNCHANGED <<aresp, abody, raceKey, ovars, cvars, rvars, now, wvars>>

\* the client goes away while a call is awaited: the stream is cancelled
ClientCancels ==
    /\ apc = "calling"
    /\ channel = "open"
    /\ channel' = "cancelled"
    /\ UNCHANGED <<apc, aresp, abody, raceKey, stepIndex, stepStart, previousOutput,
                   totalLatency, hasError, events, providerCalls, callOutcomes,
                   closeCalls, emitFailed, ovars, cvars, rvars, now, wvars>>

\* time passes while a call is awaited
RaceTick ==
    /\ apc = "calling"
    /\ now < MaxTime
    /\ now' = now + 1
    /\ UNCHANGED <<ovars, cvars, xvars>>

NextRace ==
    \/ \E body \in RaceBodies, key \in EnvKeys : RacePost(body, key)
    \/ \E o \in CallOutcomes(RaceProvider, raceKey) : RaceCallSettles(o)
    \/ ClientCancels
    \/ RaceTick

SpecRace == Init /\ [][NextRace]_vars

-----------------------------------------------------------------------------
(* Properties of the agent-race sequencer, checked under SpecRace *)

\* the status of a step event; the terminal event has none
StatusOf(m) == IF Has(m, "status") THEN m.status ELSE "terminal"
IsTerminal(m) == Has(m, "complete") /\ m.complete = TRUE

\* events 2j-1 and 2j are running(j) and complete(j)
StepPair(j) ==
    /\ Len(events) >= 2 * j
    /\ events[2 * j - 1] = RunningMsg(j)
    /\ StatusOf(events[2 * j]) = "complete"
    /\ events[2 * j].step = j

\* the stream has ended and every enqueue found the client reading
RaceEndedOpen == apc = "ended" /\ ~emitFailed

\* C18: the calls of a run are for steps 1, 2, ... in order, at most one of
\* them is outstanding, and call j is made, together with the enqueueing of
\* running(j), only when call j-1 has returned and complete(j-1) is enqueued;
\* its prompt is the template of step j around the whole content call j-1
\* returned (around the company for step 1).  Events, calls and returns are
\* only ever appended.
C18_StepsSequential ==
    /\ [](LET k == Len(providerCalls) IN
          /\ k <= Len(STEPS)
          /\ Len(callOutcomes) \in {k - 1, k} \cup (IF k = 0 THEN {0} ELSE {})
          /\ (k = 0) => events = <<>>
          /\ \A j \in 1..k :
                 /\ providerCalls[j].step = j
                 /\ Len(events) >= 2 * j - 1
                 /\ events[2 * j - 1] = RunningMsg(j)
                 /\ (j = 1) =>
                        providerCalls[j].prompt =
                            STEPS[1].pre \o abody.company.s \o STEPS[1].post
                 /\ (j > 1) =>
                        /\ callOutcomes[j - 1].kind = "content"
                        /\ StepPair(j - 1)
                        /\ providerCalls[j].prompt =
                               STEPS[j].pre \o callOutcomes[j - 1].content \o STEPS[j].post)
    /\ [][ /\ IsPrefix(events, events')
           /\ IsPrefix(providerCalls, providerCalls')
           /\ IsPrefix(callOutcomes, callOutcomes')
           /\ (providerCalls' # providerCalls)
                  => Len(callOutcomes') = Len(providerCalls)
         ]_vars

\* five calls were made, the first returned a content longer than its preview
\* and the later ones other contents
C18_Witness ==
    /\ apc = "ended"
    /\ Len(providerCalls) = Len(STEPS)
    /\ Len(callOutcomes) = Len(STEPS)
    /\ callOutcomes[1].kind = "content"
    /\ callOutcomes[1].content = LongContent
    /\ events[2].output_preview # LongContent
    /\ callOutcomes[2].content = "facts"
    /\ callOutcomes[4].content = ""

\* C19: a call that failed is the last call of its run.  When the call of
\* step k has failed and the client is still reading, the stream is the
\* running/complete pairs of steps 1..k-1, running(k), error(k) with the
\* error's message, and the terminal event with has_error true, and nothing
\* more; for k = 1 that is running(1), error(1), terminal.
C19_FailedStepEndsStream ==
    /\ \A j \in 1..Len(callOutcomes) :
           (callOutcomes[j].kind = "throws") =>
               /\ j = Len(callOutcomes)
               /\ Len(providerCalls) = j
               /\ apc = "ended"
    /\ (RaceEndedOpen /\ callOutcomes[Len(callOutcomes)].kind = "throws") =>
           LET k == Len(callOutcomes) IN
           /\ Len(events) = 2 * k + 1
           /\ \A j \in 1..(k - 1) : StepPair(j)
           /\ events[2 * k - 1] = RunningMsg(k)
           /\ events[2 * k] = [step |-> k, name |-> STEPS[k].name, status |-> "error",
                               error |-> callOutcomes[k].thrown.message]
           /\ IsTerminal(events[2 * k + 1])
           /\ events[2 * k + 1].has_error = TRUE
           /\ (k = 1) => events[3].total_latency_ms = 0
           /\ closeCalls = 1

\* the third step failed after two steps that took time
C19_Witness ==
    /\ RaceEndedOpen
    /\ Len(callOutcomes) = 3
    /\ callOutcomes[3].kind = "throws"
    /\ Len(events) = 7
    /\ events[7].total_latency_ms > 0

\* the first step failed
FirstStepFails ==
    /\ RaceEndedOpen
    /\ Len(events) = 3
    /\ events[1] = RunningMsg(1)
    /\ StatusOf(events[2]) = "error"
    /\ IsTerminal(events[3])

\* C20: when all the calls of a run have succeeded and the client is still
\* reading, the stream is running(i), complete(i) for i = 1..5 in order, then
\* one terminal event with has_error false, the only terminal event; the
\* channel has been closed by one call of close, made after that event, and
\* nothing is enqueued or closed afterwards.
C20_AllStepsSucceed ==
    /\ []((/\ RaceEndedOpen
           /\ Len(callOutcomes) = Len(STEPS)
           /\ \A j \in 1..Len(STEPS) : callOutcomes[j].kind = "content") =>
              /\ Len(events) = 2 * Len(STEPS) + 1
              /\ \A j \in 1..Len(STEPS) : StepPair(j)
              /\ IsTerminal(events[Len(events)])
              /\ events[Len(events)].has_error = FALSE
              /\ Cardinality({n \in 1..Len(events) : IsTerminal(events[n])}) = 1
              /\ closeCalls = 1
              /\ channel = "closed")
    /\ []((channel = "closed") => (closeCalls = 1 /\ IsTerminal(events[Len(events)])))
    /\ [][(channel = "closed") => (events' = events /\ closeCalls' = closeCalls
                                   /\ channel' = channel)]_vars

\* a run of five successful steps that took time
C20_Witness ==
    /\ RaceEndedOpen
    /\ Len(callOutcomes) = Len(STEPS)
    /\ \A j \in 1..Len(STEPS) : callOutcomes[j].kind = "content"
    /\ Len(events) = 2 * Len(STEPS) + 1
    /\ events[Len(events)].total_latency_ms > 0
    /\ channel = "closed"

\* C21: on every path of an agent-race stream the channel is ended by one call
\* of close.  While a call is awaited close has not been called; once start()
\* has ended - after the terminal event, whether or not a step failed, or by
\* an enqueue that threw because the client had cancelled the stream - close
\* has been called exactly once and the channel is no longer open; and from
\* the call of close on, and on a cancelled channel, nothing is enqueued and
\* close is not called again.
C21_ClosedExactlyOnce ==
    /\ [](/\ (apc = "calling") => (closeCalls = 0 /\ channel \in {"open", "cancelled"})
          /\ (apc = "ended") => (closeCalls = 1 /\ channel \in {"closed", "cancelled"})
          /\ (apc \in {"idle", "refused"}) => (closeCalls = 0 /\ channel = "none")
          /\ emitFailed => (apc = "ended" /\ channel = "cancelled"))
    /\ [][ /\ (closeCalls > 0) => (events' = events /\ closeCalls' = closeCalls)
           /\ (channel \in {"closed", "cancelled"}) => events' = events
         ]_vars

\* the client went away during the second step and the enqueue after it threw
C21_Witness ==
    /\ apc = "ended"
    /\ emitFailed
    /\ channel = "cancelled"
    /\ closeCalls = 1
    /\ Len(callOutcomes) = 2
    /\ Len(events) = 3

\* the sum of the latency_ms of the complete events among evs
RECURSIVE CompleteLatencySum(_)
CompleteLatencySum(evs) ==
    IF evs = <<>> THEN 0
    ELSE (IF StatusOf(Head(evs)) = "complete" THEN Head(evs).latency_ms ELSE 0)
         + CompleteLatencySum(Tail(evs))

\* C27: a terminal event is the last event of its stream; its total_latency_ms
\* is the sum of the latency_ms of the complete events enqueued before it (a
\* failed step adds nothing, however long it took), and its has_error is TRUE
\* exactly when an error event was enqueued before it.
C27_TerminalTotals ==
    \A n \in 1..Len(events) :
        IsTerminal(events[n]) =>
            /\ n = Len(events)
            /\ events[n].total_latency_ms = CompleteLatencySum(SubSeq(events, 1, n - 1))
            /\ events[n].has_error =
                   (\E j \in 1..(n - 1) : StatusOf(events[j]) = "error")

\* two steps that took time were completed and the third failed after taking
\* time as well
C27_Witness ==
    /\ RaceEndedOpen
    /\ Len(events) = 7
    /\ StatusOf(events[6]) = "error"
    /\ events[2].latency_ms > 0
    /\ events[4].latency_ms > 0
    /\ events[7].total_latency_ms = events[2].latency_ms + events[4].latency_ms
    /\ now > stepStart

-----------------------------------------------------------------------------
(* The simulated benchmark, POST /api/benchmark/mock.  Its numbers with one   *)
(* decimal are kept in tenths; token_count is a whole number.                 *)

\* MOCK_BENCHMARKS, in tenths (token_count apart)
MOCK_BENCHMARKS ==
    [cerebras  |-> [ttft_ms |-> 520, tokens_per_second |-> 21563,
                    total_latency_ms |-> 1270, token_count |-> 274,
                    time_to_100_tokens_ms |-> 980, throughput_first_100 |-> 10204],
     groq      |-> [ttft_ms |-> 1860, tokens_per_second |-> 5127,
                    total_latency_ms |-> 5340, token_count |-> 274,
                    time_to_100_tokens_ms |-> 3820, throughput_first_100 |-> 2618],
     fireworks |-> [ttft_ms |-> 2450, tokens_per_second |-> 894,
                    total_latency_ms |-> 30650, token_count |-> 274,
                    time_to_100_tokens_ms |-> 13400, throughput_first_100 |-> 746]]

MOCK_SETTINGS ==
    [TTFT_VARIANCE_PERCENT |-> 15, TPS_VARIANCE_PERCENT |-> 10,
     LATENCY_VARIANCE_PERCENT |-> 12, TOKEN_COUNT_VARIANCE |-> 10]

\* values of Math.random(), in [0, 1)
RandomValues ==
    [lo |-> [num |-> 1, den |-> 2000], mid |-> [num |-> 1, den |-> 2],
     hi |-> [num |-> 1999, den |-> 2000], zero |-> [num |-> 0, den |-> 1]]

\* what a run of the route may draw: the sequence is repeated in turn
RandomStreams ==
    { <<RandomValues.zero>>, <<RandomValues.mid>>, <<RandomValues.hi>>,
      <<RandomValues.lo, RandomValues.hi>>, <<RandomValues.hi, RandomValues.lo>> }

\* the value of the n-th call of Math.random()
RandomAt(rs, n) == rs[((n - 1) % Len(rs)) + 1]

\* mutant: the percentage is not applied, the variance is the value itself
addVariance_WholeValue(value, variancePercent, r) ==
    value + MathRound((2 * r.num - r.den) * value, r.den)

\* addVariance(value, variancePercent) when Math.random() returns r.  value is
\* in tenths and whole, so roundToOneDecimal(value + delta), in tenths, is
\* value + Math.round(delta in tenths);
\* delta = (r - 0.5) * 2 * value * (variancePercent / 100)
addVariance(value, variancePercent, r) ==
    value + MathRound((2 * r.num - r.den) * value * variancePercent, 100 * r.den)

\* Math.floor(Math.random() * TOKEN_COUNT_VARIANCE * 2 - TOKEN_COUNT_VARIANCE)
TokenCountDelta(r) ==
    (2 * MOCK_SETTINGS.TOKEN_COUNT_VARIANCE * r.num
        - MOCK_SETTINGS.TOKEN_COUNT_VARIANCE * r.den) \div r.den

\* the result built for providerId when the calls of Math.random() made for it
\* are calls n + 1 .. n + 6
MockResult(providerId, rs, n) ==
    LET mockData == MOCK_BENCHMARKS[providerId]
    IN  [provider |-> providerId,
         model    |-> ProviderModel(providerId),
         ttft_ms  |-> addVariance(mockData.ttft_ms,
                          MOCK_SETTINGS.TTFT_VARIANCE_PERCENT, RandomAt(rs, n + 1)),
         tokens_per_second |-> addVariance(mockData.tokens_per_second,
                          MOCK_SETTINGS.TPS_VARIANCE_PERCENT, RandomAt(rs, n + 2)),
         total_latency_ms |-> addVariance(mockData.total_latency_ms,
                          MOCK_SETTINGS.LATENCY_VARIANCE_PERCENT, RandomAt(rs, n + 3)),
         token_count |-> mockData.token_count + TokenCountDelta(RandomAt(rs, n + 4)),
         time_to_100_tokens_ms |-> addVariance(mockData.time_to_100_tokens_ms,
                          MOCK_SETTINGS.LATENCY_VARIANCE_PERCENT, RandomAt(rs, n + 5)),
         throughput_first_100 |-> addVariance(mockData.throughput_first_100,
                          MOCK_SETTINGS.TPS_VARIANCE_PERCENT, RandomAt(rs, n + 6))]

\* results.sort((a, b) => a.ttft_ms - b.ttft_ms): stable
RECURSIVE MockSort(_)
MockSort(s) ==
    IF s = <<>> THEN <<>>
    ELSE LET x    == s[Len(s)]
             init == MockSort(SubSeq(s, 1, Len(s) - 1))
             keep == {i \in 1..Len(init) : init[i].ttft_ms - x.ttft_ms <= 0}
             k    == IF keep = {} THEN 0 ELSE CHOOSE i \in keep : \A j \in keep : j <= i
         IN  SubSeq(init, 1, k) \o <<x>> \o SubSeq(init, k + 1, Len(init))

\* selectedProviders && selectedProviders.length > 0 ? selectedProviders
\*                                                   : Object.keys(providers)
\* (the loop over a string goes through its characters)
ProvidersToTest(selectedProviders) ==
    IF Truthy(selectedProviders) /\ JsLength(selectedProviders) > 0
    THEN IF selectedProviders.t = "array" THEN selectedProviders.a
         ELSE [i \in 1..Len(selectedProviders.s) |-> CharAt(selectedProviders.s, i)]
    ELSE EndpointKeys

\* if (!mockData) continue: the loop passes the identifiers without fixture
RECURSIVE SkipUnknown(_)
SkipUnknown(q) ==
    IF q # <<>> /\ Head(q) \notin DOMAIN MOCK_BENCHMARKS THEN SkipUnknown(Tail(q)) ELSE q

MockIds == {"cerebras", "groq", "fireworks", "mistral"}

MockBodies ==
    {Unparseable, JsNull} \cup
    { [t |-> "object", providers |-> ps] :
          ps \in {JsUndefined, JsStr("groq")}
                 \cup {JsArr(s) : s \in SeqsUpTo(MockIds, MaxProviders)} }

\* the loop has come to the identifiers q with the results rs: it waits for
\* simulateLatency (one call of Math.random()) or sorts and responds
MockLoop(q, rs, drawn) ==
    LET rest == SkipUnknown(q)
    IN  /\ mqueue' = rest
        /\ IF rest # <<>>
           THEN /\ mpc' = "waiting"
                /\ mresults' = rs
                /\ randomCalls' = drawn + 1
                /\ UNCHANGED mresp
           ELSE /\ mpc' = "done"
                /\ mresults' = MockSort(rs)
                /\ randomCalls' = drawn
                /\ mresp' = JsonResponse(200, [results |-> MockSort(rs), mock |-> TRUE])

\* the request arrives; the route runs up to its first await
MockReceive(body, rs) ==
    /\ mpc = "idle"
    /\ mbody' = body
    /\ randomStream' = rs
    /\ IF ~Destructurable(body)
       THEN /\ mpc' = "done"
            /\ mresp' = JsonResponse(500, [error |-> "invalid request body"])
            /\ UNCHANGED <<mqueue, mresults, randomCalls>>
       ELSE MockLoop(ProvidersToTest(BodyField(body, "providers")), <<>>, 0)
    /\ UNCHANGED <<ovars, cvars, now, rvars, avars, bvars, gvars>>

\* the simulated latency has passed: the result of the identifier is built
\* and pushed, and the loop goes on
MockLatencyElapsed ==
    /\ mpc = "waiting"
    /\ MockLoop(Tail(mqueue),
                Append(mresults, MockResult(Head(mqueue), randomStream, randomCalls)),
                randomCalls + 6)
    /\ UNCHANGED <<mbody, randomStream, ovars, cvars, now, rvars, avars, bvars, gvars>>

NextMock ==
    \/ \E body \in MockBodies, rs \in RandomStreams : MockReceive(body, rs)
    \/ MockLatencyElapsed

SpecMock == Init /\ [][NextMock]_vars

-----------------------------------------------------------------------------
(* Properties of the simulated benchmark, checked under SpecMock *)

\* the request named a non-empty list of identifiers that all have a fixture
MockKnownRequest ==
    /\ mbody.t = "object"
    /\ mbody.providers.t = "array"
    /\ Len(mbody.providers.a) > 0
    /\ \A i \in DOMAIN mbody.providers.a : mbody.providers.a[i] \in DOMAIN MOCK_BENCHMARKS

\* |got - fixture| is at most pct percent of fixture, and slack hundredths of
\* a tenth more
WithinBand(got, fixture, pct, slack) ==
    LET d == IF got >= fixture THEN got - fixture ELSE fixture - got
    IN  100 * d <= fixture * pct + slack

\* every numeric field of r lies in the variance band of its fixture value
InBands(r, slack) ==
    LET f == MOCK_BENCHMARKS[r.provider]
    IN  /\ WithinBand(r.ttft_ms, f.ttft_ms, MOCK_SETTINGS.TTFT_VARIANCE_PERCENT, slack)
        /\ WithinBand(r.tokens_per_second, f.tokens_per_second,
                      MOCK_SETTINGS.TPS_VARIANCE_PERCENT, slack)
        /\ WithinBand(r.total_latency_ms, f.total_latency_ms,
                      MOCK_SETTINGS.LATENCY_VARIANCE_PERCENT, slack)
        /\ WithinBand(r.time_to_100_tokens_ms, f.time_to_100_tokens_ms,
                      MOCK_SETTINGS.LATENCY_VARIANCE_PERCENT, slack)
        /\ WithinBand(r.throughput_first_100, f.throughput_first_100,
                      MOCK_SETTINGS.TPS_VARIANCE_PERCENT, slack)
        /\ r.token_count - f.token_count
               \in (-MOCK_SETTINGS.TOKEN_COUNT_VARIANCE)..MOCK_SETTINGS.TOKEN_COUNT_VARIANCE

\* the answer to a request for known identifiers, its bands widened by slack
MockAnswer(slack) ==
    (mpc = "done" /\ MockKnownRequest) =>
        /\ mresp.status = 200
        /\ mresp.body.mock = TRUE
        /\ Len(mresp.body.results) = Len(mbody.providers.a)
        /\ \A p \in DOMAIN MOCK_BENCHMARKS :
               CountProvider(mresp.body.results, p) = CountId(mbody.providers.a, p)
        /\ \A i \in DOMAIN mresp.body.results : InBands(mresp.body.results[i], slack)

\* C22 as stated: the mock route makes no network call and answers a request
\* for known identifiers with status 200, mock true and one result per
\* requested identifier, every numeric field within the variance band of its
\* fixture value.
C22_MockWithinBand ==
    /\ upstreamCalls = 0
    /\ subRequests = {}
    /\ MockAnswer(0)

\* C22, amended: as above, with every field one-decimal and within the
\* variance band widened by the rounding to one decimal (half a tenth).
C22_MockWithinRoundedBand ==
    /\ upstreamCalls = 0
    /\ subRequests = {}
    /\ MockAnswer(50)

\* fireworks and groq were requested and are answered in the other order,
\* groq near the upper and fireworks near the lower edge of the ttft band,
\* with a field that the rounding took out of the exact band
C22_Witness ==
    /\ mpc = "done"
    /\ MockKnownRequest
    /\ mbody.providers.a = <<"groq", "fireworks">>
    /\ Len(mresp.body.results) = 2
    /\ mresp.body.results[1].provider = "fireworks"
    /\ mresp.body.results[2].provider = "groq"
    /\ randomStream = <<RandomValues.lo, RandomValues.hi>>
    /\ \E i \in 1..2 : ~InBands(mresp.body.results[i], 0)

-----------------------------------------------------------------------------
(* The page (Home): benchmark runs, the saved results of the benchmark       *)
(* context, and what the benchmark view and the ROI view compute from them.  *)

\* a successful result as the routes build it (times in ms, rates in tenths)
OkResult(provider, ttft, tps, latency, tokens) ==
    [provider |-> provider, model |-> ProviderModel(provider), ttft_ms |-> ttft,
     tokens_per_second |-> tps, total_latency_ms |-> latency, token_count |-> tokens]

\* result sets POST /api/benchmark answers with, sorted as it sorts them: two
\* successes; a success without any token and a failed provider; two failures
RealResultSets ==
    { <<OkResult("cerebras", 52, 21563, 127, 274), OkResult("groq", 186, 5127, 534, 274)>>,
      <<OkResult("cerebras", 52, 0, 60, 0),
        buildErrorResult("groq", ProviderModel("groq"),
                         createApiError("groq", "500", "overloaded"), 0, 24)>>,
      <<OrchErrorResult("cerebras", "fetch failed"),
        buildErrorResult("groq", ProviderModel("groq"),
                         ConfigError(EnvVarOf("groq")), 0, 0)>> }

\* how the request of a run settles: response.json() gives data, or the fetch
\* or the parsing of the body fails
BenchOutcomes(endpoint) ==
    {[kind |-> "failed"]} \cup
    (IF endpoint = "/api/benchmark/mock"
     THEN {[kind |-> "data",
            data |-> [results |-> MockSort(<<MockResult("groq", <<RandomValues.mid>>, 1),
                                            MockResult("cerebras", <<RandomValues.lo>>, 8)>>),
                      mock |-> TRUE]]}
     ELSE {[kind |-> "data", data |-> [results |-> rs]] : rs \in RealResultSets}
          \cup {[kind |-> "data", data |-> [error |-> "prompt is required"]]})

\* what JSON.stringify writes for the saved results and new Date() read as t,
\* and the Date that new Date(data.lastRun) makes of it
StoredData(rs, t) == [results |-> rs, lastRun |-> [iso |-> t]]
StoredDate(data)  == IF Has(data.lastRun, "iso") THEN data.lastRun.iso ELSE JsNull

\* mutant: whatever has results is saved
ShouldSave_AlsoMock(data) == Has(data, "results")

\* if (data.results) { ... if (!data.mock) saveResults(data.results) }
ShouldSave(data) == Has(data, "results") /\ ~(Has(data, "mock") /\ data.mock)

\* the page is opened or reloaded: the state is the initial one and the
\* provider's effect loads what is stored
PageMount ==
    /\ ~isLoading
    /\ bpc' = "mounted"
    /\ demoMode' = FALSE
    /\ results' = <<>>
    /\ isMockData' = FALSE
    /\ savedResults' = IF storage # NoBody THEN storage.results ELSE <<>>
    /\ lastRun' = IF storage # NoBody THEN StoredDate(storage) ELSE JsNull
    /\ UNCHANGED <<isLoading, bendpoint, storage, wallClock, runLog,
                   ovars, cvars, now, rvars, avars, mvars, gvars>>

\* the demo-mode switch
ToggleDemoMode ==
    /\ bpc = "mounted"
    /\ ~isLoading
    /\ demoMode' = ~demoMode
    /\ UNCHANGED <<bpc, isLoading, bendpoint, results, isMockData, savedResults, lastRun,
                   storage, wallClock, runLog, ovars, cvars, now, rvars, avars, mvars, gvars>>

\* runBenchmark up to its await of fetch (providers are selected and the
\* prompt is not blank; the button is disabled while a run is under way)
RunBenchmark ==
    /\ bpc = "mounted"
    /\ ~isLoading
    /\ wallClock < MaxRuns
    /\ isLoading' = TRUE
    /\ results' = <<>>
    /\ isMockData' = FALSE
    /\ bendpoint' = IF demoMode THEN "/api/benchmark/mock" ELSE "/api/benchmark"
    /\ wallClock' = wallClock + 1
    /\ UNCHANGED <<bpc, demoMode, savedResults, lastRun, storage, runLog,
                   ovars, cvars, now, rvars, avars, mvars, gvars>>

\* runBenchmark from the settling of its request to its end; setItemOk is
\* FALSE when localStorage.setItem throws
BenchSettles(outcome, setItemOk) ==
    /\ isLoading
    /\ LET hasData == outcome.kind = "data"
           shown   == hasData /\ Has(outcome.data, "results")
           saved   == hasData /\ ShouldSave(outcome.data)
       IN  /\ results' = IF shown THEN outcome.data.results ELSE results
           /\ isMockData' = IF shown THEN Has(outcome.data, "mock") /\ outcome.data.mock = TRUE
                            ELSE isMockData
           /\ savedResults' = IF saved THEN outcome.data.results ELSE savedResults
           /\ lastRun' = IF saved THEN wallClock ELSE lastRun
           /\ storage' = IF saved /\ setItemOk
                         THEN StoredData(outcome.data.results, wallClock)
                         ELSE storage
           /\ runLog' = Append(runLog,
                  [endpoint |-> bendpoint,
                   ok       |-> shown,
                   results  |-> IF shown THEN outcome.data.results ELSE <<>>,
                   at       |-> wallClock,
                   written  |-> saved /\ setItemOk])
    /\ isLoading' = FALSE
    /\ bendpoint' = "none"
    /\ UNCHANGED <<bpc, demoMode, wallClock, ovars, cvars, now, rvars, avars, mvars, gvars>>

NextPage ==
    \/ PageMount
    \/ ToggleDemoMode
    \/ RunBenchmark
    \/ \E o \in BenchOutcomes(bendpoint), setItemOk \in BOOLEAN : BenchSettles(o, setItemOk)

SpecPage == Init /\ [][NextPage]_vars

-----------------------------------------------------------------------------
(* Properties of the saved results, checked under SpecPage *)

\* the runs against the real endpoint that were answered with results
RealSuccesses ==
    {i \in DOMAIN runLog : runLog[i].endpoint = "/api/benchmark" /\ runLog[i].ok}

\* the runs whose results were written to the storage
WrittenRuns == {i \in DOMAIN runLog : runLog[i].written}

Latest(S) == CHOOSE i \in S : \A j \in S : j <= i

\* the stored snapshot is that of the latest run among S, if any
StorageIsLatestOf(S) ==
    storage = IF S = {} THEN NoBody
              ELSE StoredData(runLog[Latest(S)].results, runLog[Latest(S)].at)

\* C23 as stated: after any sequence of runs the stored snapshot is the result
\* set of the most recent run against the real endpoint that was answered with
\* results, with the time of that run.
C23_SnapshotIsLastRealRun == StorageIsLatestOf(RealSuccesses)

\* C23, amended: only runs against the real endpoint that were answered with
\* results are written; the stored snapshot is the result set and the time of
\* the most recent of them whose write succeeded (a later one overwrites an
\* earlier one; a failed write leaves the older snapshot); the results kept
\* in memory are those of such a run; and a run against the mock endpoint
\* changes neither.
C23_SnapshotIsLastWrittenRealRun ==
    /\ [](/\ WrittenRuns \subseteq RealSuccesses
          /\ StorageIsLatestOf(WrittenRuns)
          /\ \/ savedResults = <<>> /\ lastRun = JsNull
             \/ \E i \in RealSuccesses :
                    savedResults = runLog[i].results /\ lastRun = runLog[i].at)
    /\ [][(bendpoint = "/api/benchmark/mock")
              => UNCHANGED <<storage, savedResults, lastRun>>]_vars

\* two real runs with different results were written, then a mock run ended
\* with results: the snapshot is that of the second real run
C23_Witness ==
    /\ Len(runLog) = 3
    /\ runLog[1].written /\ runLog[2].written
    /\ runLog[1].results # runLog[2].results
    /\ runLog[3].endpoint = "/api/benchmark/mock" /\ runLog[3].ok
    /\ storage = StoredData(runLog[2].results, runLog[2].at)
    /\ isMockData
    /\ ~isLoading

-----------------------------------------------------------------------------
(* What the benchmark view computes from results *)

\* results.filter((r) => !r.error)
validResults(rs) == SelectSeq(rs, LAMBDA r : ~ErrorTruthy(r))

\* the callbacks of the three reduce calls: which of a and b is kept
ReduceKeep(which, a, b) ==
    CASE which = "fastestTTFT"       -> IF a.ttft_ms < b.ttft_ms THEN a ELSE b
      [] which = "slowestTTFT"       -> IF a.ttft_ms > b.ttft_ms THEN a ELSE b
      [] which = "highestThroughput" ->
             IF a.tokens_per_second > b.tokens_per_second THEN a ELSE b

\* validResults.length ? validResults.reduce(...) : null
RECURSIVE ReduceValid(_, _)
ReduceValid(which, valid) ==
    IF valid = <<>> THEN JsNull
    ELSE IF Len(valid) = 1 THEN valid[1]
    ELSE ReduceKeep(which, ReduceValid(which, SubSeq(valid, 1, Len(valid) - 1)),
                    valid[Len(valid)])

fastestTTFT(rs)       == ReduceValid("fastestTTFT", validResults(rs))
slowestTTFT(rs)       == ReduceValid("slowestTTFT", validResults(rs))
highestThroughput(rs) == ReduceValid("highestThroughput", validResults(rs))

\* cerebrasResult && slowestTTFT && slowestTTFT.provider !== "cerebras"
\*     ? slowestTTFT.ttft_ms / cerebrasResult.ttft_ms : null
speedAdvantage(rs) ==
    LET valid    == validResults(rs)
        cerebras == {i \in DOMAIN valid : valid[i].provider = "cerebras"}
        slowest  == slowestTTFT(rs)
    IN  IF cerebras # {} /\ slowest # JsNull /\ slowest.provider # "cerebras"
        THEN JsRate(slowest.ttft_ms,
                    valid[CHOOSE i \in cerebras : \A j \in cerebras : i <= j].ttft_ms)
        ELSE JsNull

\* bestTTFT, bestTPS, bestLatency: Math.min / Math.max over validResults, or 0
BestValue(field, rs) ==
    LET valid  == validResults(rs)
        values == {valid[i][field] : i \in DOMAIN valid}
    IN  IF valid = <<>> THEN 0
        ELSE IF field = "tokens_per_second"
        THEN CHOOSE v \in values : \A w \in values : w <= v
        ELSE CHOOSE v \in values : \A w \in values : v <= w

\* mutant: a cell is highlighted by its value alone
CellHighlighted_ByValue(result, field, rs) == result[field] = BestValue(field, rs)

\* result.ttft_ms === bestTTFT && !result.error, and so for the other cells
CellHighlighted(result, field, rs) ==
    result[field] = BestValue(field, rs) /\ ~ErrorTruthy(result)

(* What the ROI view computes from the saved results *)
USE_CASE_THRESHOLDS ==
    [voice_agent |-> 200, code_autocomplete |-> 150, customer_support |-> 500,
     multi_agent |-> 300, batch_processing |-> 1000]

\* DEFAULT_PERFORMANCE_ESTIMATES[providerId].ttft_ms
DEFAULT_PERFORMANCE_ESTIMATES == [cerebras |-> 52, groq |-> 186, fireworks |-> 245]

\* savedResults.find((r) => r.provider === providerId), or undefined
FindResult(saved, providerId) ==
    LET found == {i \in DOMAIN saved : saved[i].provider = providerId}
    IN  IF found = {} THEN JsUndefined
        ELSE saved[CHOOSE i \in found : \A j \in found : i <= j]

\* benchResult?.ttft_ms ?? DEFAULT_ESTIMATES[providerId]?.ttft_ms ?? 500
RoiTtft(saved, providerId) ==
    LET benchResult == FindResult(saved, providerId)
    IN  IF benchResult # JsUndefined THEN benchResult.ttft_ms
        ELSE IF providerId \in DOMAIN DEFAULT_PERFORMANCE_ESTIMATES
        THEN DEFAULT_PERFORMANCE_ESTIMATES[providerId]
        ELSE 500

\* the three cards: status "good" ("Feels instant"), viableProviders, isViable
RoiViable(saved, providerId, useCase) ==
    RoiTtft(saved, providerId) < USE_CASE_THRESHOLDS[useCase]

-----------------------------------------------------------------------------
(* Properties of the two views, checked under SpecPage *)

BestFields == {"ttft_ms", "tokens_per_second", "total_latency_ms"}

\* the entries of rs that carry no error
ErrorFree(rs) == {i \in DOMAIN rs : ~Has(rs[i], "error")}

\* C24: whatever result set the view shows, the fastest-TTFT, the slowest-TTFT
\* and the highest-throughput entry are entries without error (none when
\* there is no such entry) and are best among the entries without error; the
\* speed advantage is a ratio of the ttft of two entries without error; the
\* best ttft, throughput and latency are the minimum, maximum and minimum over
\* the entries without error; the cells with these values in entries without
\* error are highlighted, and no cell of an entry with an error is.
C24_BestOfErrorFree ==
    LET rs == results
        ef == ErrorFree(rs)
    IN  /\ (ef = {}) =>
               /\ fastestTTFT(rs) = JsNull
               /\ highestThroughput(rs) = JsNull
               /\ speedAdvantage(rs) = JsNull
        /\ (ef # {}) =>
               /\ \E i \in ef : /\ fastestTTFT(rs) = rs[i]
                                /\ \A j \in ef : rs[i].ttft_ms <= rs[j].ttft_ms
               /\ \E i \in ef : /\ slowestTTFT(rs) = rs[i]
                                /\ \A j \in ef : rs[i].ttft_ms >= rs[j].ttft_ms
               /\ \E i \in ef : /\ highestThroughput(rs) = rs[i]
                                /\ \A j \in ef :
                                       rs[i].tokens_per_second >= rs[j].tokens_per_second
               /\ \E i \in ef : /\ BestValue("ttft_ms", rs) = rs[i].ttft_ms
                                /\ \A j \in ef : rs[i].ttft_ms <= rs[j].ttft_ms
               /\ \E i \in ef : /\ BestValue("tokens_per_second", rs) = rs[i].tokens_per_second
                                /\ \A j \in ef :
                                       rs[i].tokens_per_second >= rs[j].tokens_per_second
               /\ \E i \in ef : /\ BestValue("total_latency_ms", rs) = rs[i].total_latency_ms
                                /\ \A j \in ef :
                                       rs[i].total_latency_ms <= rs[j].total_latency_ms
        /\ (speedAdvantage(rs) # JsNull) =>
               \E i, j \in ef : /\ rs[i].provider = "cerebras"
                                /\ rs[j].provider # "cerebras"
                                /\ speedAdvantage(rs) = JsRate(rs[j].ttft_ms, rs[i].ttft_ms)
        /\ \A i \in DOMAIN rs, f \in BestFields :
               CellHighlighted(rs[i], f, rs) <=>
                   (i \in ef /\ rs[i][f] = BestValue(f, rs))

\* the view shows a success without tokens and a failure: the best throughput
\* is the 0 of the success, the failed entry has the same 0 and is not
\* highlighted
C24_Witness ==
    /\ Len(results) = 2
    /\ ~Has(results[1], "error")
    /\ Has(results[2], "error")
    /\ BestValue("tokens_per_second", results) = 0
    /\ results[2].tokens_per_second = 0
    /\ CellHighlighted(results[1], "tokens_per_second", results)
    /\ ~CellHighlighted(results[2], "tokens_per_second", results)

\* C28 as stated: a provider whose saved result carries an error is not
\* reported as meeting the TTFT threshold of any use case.
C28_ErrorResultNotViable ==
    \A p \in DOMAIN DEFAULT_PERFORMANCE_ESTIMATES, u \in DOMAIN USE_CASE_THRESHOLDS :
        LET r == FindResult(savedResults, p)
        IN  (r # JsUndefined /\ Has(r, "error")) => ~RoiViable(savedResults, p, u)

\* what holds instead: a provider whose saved result carries an error is
\* reported as meeting the threshold of every use case
ErrorResultAlwaysViable ==
    \A p \in DOMAIN DEFAULT_PERFORMANCE_ESTIMATES, u \in DOMAIN USE_CASE_THRESHOLDS :
        LET r == FindResult(savedResults, p)
        IN  (r # JsUndefined /\ Has(r, "error")) => RoiViable(savedResults, p, u)

-----------------------------------------------------------------------------
(* The page's agent race: runAgentRace of page.tsx.  One callback per       *)
(* selected provider reads that provider's event stream and folds each      *)
(* event into agentRaces with a functional updater; runAgentRace awaits     *)
(* Promise.all of the callbacks and then clears isRacing.  A read hands the *)
(* callback whole events, in the order the server sent them.                *)

AGENT_STEPS == <<"Research", "Summarize", "Draft", "Critique", "Revise">>

\* the selections a race is started with (the default one first)
RaceSelections == {<<"cerebras", "groq">>, <<"groq">>, <<"groq", "cerebras">>}

\* the steps a provider's run fails at (0: at none)
FailingSteps == {0, 1, 3}

Selected == {selectedAgentProviders[i] : i \in DOMAIN selectedAgentProviders}

\* steps: AGENT_STEPS.map(...), totalLatency: 0, complete: false
initialState ==
    [steps |-> [i \in DOMAIN AGENT_STEPS |->
                   [step |-> i, name |-> AGENT_STEPS[i], status |-> "pending",
                    latency_ms |-> JsUndefined, output_preview |-> JsUndefined,
                    error |-> JsUndefined]],
     totalLatency |-> 0, complete |-> FALSE, error |-> JsUndefined]

\* the events the route sends for a run whose step failAt fails
\* (each completed step took latency ms)
RECURSIVE StepEvents(_, _, _)
StepEvents(i, failAt, latency) ==
    IF i > Len(AGENT_STEPS) THEN <<TerminalMsg((i - 1) * latency, FALSE)>>
    ELSE IF i = failAt
    THEN <<RunningMsg(i), ErrorMsg(i, Err("fetch failed")),
           TerminalMsg((i - 1) * latency, TRUE)>>
    ELSE <<RunningMsg(i), CompleteMsg(i, latency, "facts")>>
         \o StepEvents(i + 1, failAt, latency)

ServerStreams == {StepEvents(1, f, 3) : f \in FailingSteps}

\* how the fetch of /api/agent-race settles
FetchOutcomes ==
    {[kind |-> "rejects", message |-> "Failed to fetch"],
     [kind |-> "status", message |-> "HTTP error: 500"],
     [kind |-> "nobody", message |-> "No response body"]}
    \cup {[kind |-> "stream", events |-> s] : s \in ServerStreams}

\* a field of the parsed event, undefined when the event has none
ParsedField(parsed, f) ==
    IF ~Has(parsed, f) THEN JsUndefined
    ELSE IF f = "latency_ms" THEN JsNum(parsed[f]) ELSE JsStr(parsed[f])

\* mutant: the step update is written to every provider's entry
RacesAfterEvent_EveryEntry(prev, provider, parsed) ==
    IF provider \notin DOMAIN prev THEN prev
    ELSE IF Has(parsed, "complete") /\ parsed.complete
    THEN [prev EXCEPT ![provider] =
              [@ EXCEPT !.totalLatency = parsed.total_latency_ms, !.complete = TRUE]]
    ELSE [q \in DOMAIN prev |->
              [prev[q] EXCEPT !.steps =
                  [i \in DOMAIN @ |->
                      IF @[i].step = parsed.step
                      THEN [@[i] EXCEPT !.status = parsed.status,
                                        !.latency_ms = ParsedField(parsed, "latency_ms"),
                                        !.output_preview = ParsedField(parsed, "output_preview"),
                                        !.error = ParsedField(parsed, "error")]
                      ELSE @[i]]]]

\* the updater handed to setAgentRaces for one parsed event
RacesAfterEvent(prev, provider, parsed) ==
    IF provider \notin DOMAIN prev THEN prev
    ELSE IF Has(parsed, "complete") /\ parsed.complete
    THEN [prev EXCEPT ![provider] =
              [@ EXCEPT !.totalLatency = parsed.total_latency_ms, !.complete = TRUE]]
    ELSE [prev EXCEPT ![provider].steps =
              [i \in DOMAIN @ |->
                  IF @[i].step = parsed.step
                  THEN [@[i] EXCEPT !.status = parsed.status,
                                    !.latency_ms = ParsedField(parsed, "latency_ms"),
                                    !.output_preview = ParsedField(parsed, "output_preview"),
                                    !.error = ParsedField(parsed, "error")]
                  ELSE @[i]]]

\* setRaceWinner(prevWinner => prevWinner === null ? provider : prevWinner), which
\* the updater calls for an event with complete set, when the entry exists
WinnerAfterEvent(prevWinner, prev, provider, parsed) ==
    IF provider \in DOMAIN prev /\ Has(parsed, "complete") /\ parsed.complete
    THEN IF prevWinner = JsNull THEN JsStr(provider) ELSE prevWinner
    ELSE prevWinner

\* the events of one read, handled in order
RECURSIVE HandleEvents(_, _, _)
HandleEvents(st, provider, evs) ==
    IF evs = <<>> THEN st
    ELSE LET parsed == Head(evs)
             terminal == Has(parsed, "complete") /\ parsed.complete
         IN  HandleEvents(
                 [races  |-> RacesAfterEvent(st.races, provider, parsed),
                  winner |-> WinnerAfterEvent(st.winner, st.races, provider, parsed),
                  order  |-> IF terminal THEN Append(st.order, provider) ELSE st.order],
                 provider, Tail(evs))

\* the catch block: { ...prev, [provider]: { ...prev[provider], error: message } }
RacesAfterCatch(prev, provider, message) ==
    [prev EXCEPT ![provider].error = JsStr(message)]

\* mutant: a callback that caught an error rejects
CallbackPromise_Rethrows(state) ==
    CASE state = "returned" -> "fulfilled"
      [] state = "caught"   -> "rejected"
      [] OTHER              -> "pending"

\* the promise of a provider's callback: both return statements fulfil it
CallbackPromise(state) ==
    CASE state = "returned" -> "fulfilled"
      [] state = "caught"   -> "fulfilled"
      [] OTHER              -> "pending"

\* Promise.all(racePromises)
RacePromiseAll ==
    LET ps == {CallbackPromise(cstate[p]) : p \in Selected}
    IN  IF "rejected" \in ps THEN "rejected"
        ELSE IF ps = {"fulfilled"} THEN "fulfilled"
        ELSE "pending"

\* runAgentRace up to its await; the button is disabled while isRacing
RunAgentRace(sel) ==
    /\ ~isRacing
    /\ isRacing' = TRUE
    /\ raceWinner' = JsNull
    /\ selectedAgentProviders' = sel
    /\ agentRaces' = [p \in {sel[i] : i \in DOMAIN sel} |-> initialState]
    /\ cstate' = [p \in DOMAIN cstate |->
                     IF p \in {sel[i] : i \in DOMAIN sel} THEN "fetching" ELSE "idle"]
    /\ cstream' = [p \in DOMAIN cstream |-> <<>>]
    /\ handledLog' = [p \in DOMAIN handledLog |-> <<>>]
    /\ finishOrder' = <<>>
    /\ raceAwait' = "awaiting"
    /\ UNCHANGED <<ovars, cvars, now, rvars, avars, mvars, bvars>>

\* await fetch(...), the response.ok test and response.body?.getReader()
RaceFetchSettles(p, outcome) ==
    /\ cstate[p] = "fetching"
    /\ IF outcome.kind = "stream"
       THEN /\ cstate' = [cstate EXCEPT ![p] = "reading"]
            /\ cstream' = [cstream EXCEPT ![p] = outcome.events]
            /\ UNCHANGED agentRaces
       ELSE /\ cstate' = [cstate EXCEPT ![p] = "caught"]
            /\ agentRaces' = RacesAfterCatch(agentRaces, p, outcome.message)
            /\ UNCHANGED cstream
    /\ UNCHANGED <<isRacing, raceWinner, selectedAgentProviders, handledLog, finishOrder,
                   raceAwait>>
    /\ UNCHANGED <<ovars, cvars, now, rvars, avars, mvars, bvars>>

\* one reader.read() that brings n events, and the loop over its lines
RaceRead(p, n) ==
    /\ cstate[p] = "reading"
    /\ n <= Len(cstream[p])
    /\ LET evs == SubSeq(cstream[p], 1, n)
           st  == HandleEvents([races |-> agentRaces, winner |-> raceWinner,
                                order |-> finishOrder], p, evs)
       IN  /\ agentRaces' = st.races
           /\ raceWinner' = st.winner
           /\ finishOrder' = st.order
           /\ handledLog' = [handledLog EXCEPT ![p] = @ \o evs]
           /\ cstream' = [cstream EXCEPT ![p] = SubSeq(@, n + 1, Len(@))]
    /\ UNCHANGED <<isRacing, selectedAgentProviders, cstate, raceAwait>>
    /\ UNCHANGED <<ovars, cvars, now, rvars, avars, mvars, bvars>>

\* reader.read() reports done: return { provider, success: true }
RaceReadDone(p) ==
    /\ cstate[p] = "reading"
    /\ cstream[p] = <<>>
    /\ cstate' = [cstate EXCEPT ![p] = "returned"]
    /\ UNCHANGED <<isRacing, raceWinner, agentRaces, selectedAgentProviders, cstream,
                   handledLog, finishOrder, raceAwait>>
    /\ UNCHANGED <<ovars, cvars, now, rvars, avars, mvars, bvars>>

\* reader.read() rejects (the connection broke): the catch block
RaceReadFails(p) ==
    /\ cstate[p] = "reading"
    /\ cstate' = [cstate EXCEPT ![p] = "caught"]
    /\ agentRaces' = RacesAfterCatch(agentRaces, p, "network error")
    /\ cstream' = [cstream EXCEPT ![p] = <<>>]
    /\ UNCHANGED <<isRacing, raceWinner, selectedAgentProviders, handledLog, finishOrder,
                   raceAwait>>
    /\ UNCHANGED <<ovars, cvars, now, rvars, avars, mvars, bvars>>

\* await Promise.all(racePromises) settles; setIsRacing(false) runs if it fulfilled
RaceAwaitSettles ==
    /\ raceAwait = "awaiting"
    /\ RacePromiseAll # "pending"
    /\ IF RacePromiseAll = "fulfilled"
       THEN isRacing' = FALSE /\ raceAwait' = "resumed"
       ELSE UNCHANGED isRacing /\ raceAwait' = "threw"
    /\ UNCHANGED <<raceWinner, agentRaces, selectedAgentProviders, cstate, cstream,
                   handledLog, finishOrder>>
    /\ UNCHANGED <<ovars, cvars, now, rvars, avars, mvars, bvars>>

NextPageRace ==
    \/ \E sel \in RaceSelections : RunAgentRace(sel)
    \/ \E p \in Selected, outcome \in FetchOutcomes : RaceFetchSettles(p, outcome)
    \/ \E p \in Selected, n \in 1..2 : RaceRead(p, n)
    \/ \E p \in Selected : RaceReadDone(p)
    \/ \E p \in Selected : RaceReadFails(p)
    \/ RaceAwaitSettles

SpecPageRace == Init /\ [][NextPageRace]_vars

\* the continuation of the await is a task the event loop runs once it is queued
FairSpecPageRace == SpecPageRace /\ WF_vars(RaceAwaitSettles)

-----------------------------------------------------------------------------
(* Claims about the page's agent race *)

AllStepsComplete(entry) == \A i \in DOMAIN entry.steps : entry.steps[i].status = "complete"

\* the winner is the provider whose terminal event was handled first, and it is
\* null until then
WinnerIsFirstFinisher ==
    raceWinner = IF finishOrder = <<>> THEN JsNull ELSE JsStr(finishOrder[1])

\* the result banner: {raceWinner && !isRacing && ...}
BannerShown == Truthy(raceWinner) /\ ~isRacing

\* C25: in a race of several providers the winner is the provider whose stream
\* finished first, it is set at most once per race and never changes afterwards,
\* and when the banner names it, all 5 of its steps are in the complete state
C25_WinnerCompletedAllSteps ==
    Len(selectedAgentProviders) > 1 =>
        /\ WinnerIsFirstFinisher
        /\ BannerShown => AllStepsComplete(agentRaces[raceWinner.s])

\* the status the events of a log leave step i with
RECURSIVE LastStatus(_, _)
LastStatus(log, i) ==
    IF log = <<>> THEN "pending"
    ELSE LET e == log[Len(log)]
         IN  IF ~IsTerminal(e) /\ e.step = i THEN e.status
             ELSE LastStatus(SubSeq(log, 1, Len(log) - 1), i)

TerminalsOf(log) == {k \in DOMAIN log : IsTerminal(log[k])}

\* the entry of provider p shows the events of p's own stream and nothing else
FollowsOwnStream(p) ==
    LET entry == agentRaces[p]
        log   == handledLog[p]
    IN  /\ \A i \in DOMAIN entry.steps : entry.steps[i].status = LastStatus(log, i)
        /\ entry.complete = (TerminalsOf(log) # {})
        /\ entry.totalLatency =
               IF TerminalsOf(log) = {} THEN 0
               ELSE log[CHOOSE k \in TerminalsOf(log) : \A j \in TerminalsOf(log) : j <= k]
                        .total_latency_ms

\* C29: handling an event of one provider's stream leaves every other provider's
\* entry (steps, totalLatency, complete) unchanged, and each provider's entry
\* reflects exactly the events of its own stream
C29_OnlyOwnEntryChanges ==
    /\ [](\A p \in DOMAIN agentRaces : FollowsOwnStream(p))
    /\ [][\A p \in Selected, q \in Selected :
             (p # q /\ handledLog'[p] # handledLog[p] /\ isRacing)
                 => /\ q \in DOMAIN agentRaces'
                    /\ agentRaces'[q] = agentRaces[q]]_vars

\* both callbacks are reading, one provider's step 1 failed and its stream has
\* finished while the other provider is past step 1
C29_Witness ==
    /\ cstate["cerebras"] = "reading" /\ cstate["groq"] = "reading"
    /\ Len(handledLog["cerebras"]) = 3
    /\ Len(handledLog["groq"]) >= 3
    /\ agentRaces["cerebras"].steps[1].status = "error"
    /\ agentRaces["cerebras"].complete
    /\ agentRaces["groq"].steps[1].status = "complete"
    /\ agentRaces["groq"].steps[2].status = "running"
    /\ ~agentRaces["groq"].complete

StreamOpen(p) == cstate[p] \in {"fetching", "reading"}
StreamEnded(p) == cstate[p] \in {"returned", "caught"}

\* C30: isRacing stays true while any selected provider's stream is open, the
\* race is over only when every stream has ended, however it ended, and once
\* every stream has ended isRacing returns to false
C30_RacingUntilAllEnded ==
    /\ []((\E p \in Selected : StreamOpen(p)) => isRacing)
    /\ [](raceAwait \in {"resumed", "threw"}
             => ~isRacing /\ \A p \in Selected : StreamEnded(p))
    /\ ((\A p \in Selected : StreamEnded(p)) ~> ~isRacing)

\* a race that is over, in which one provider's request got an HTTP error status,
\* another's read failed, or one stream ran to its terminal event
C30_Witness ==
    /\ raceAwait = "resumed" /\ ~isRacing
    /\ cstate["cerebras"] = "caught"
    /\ agentRaces["cerebras"].error = JsStr("HTTP error: 500")
    /\ cstate["groq"] = "returned"
    /\ agentRaces["groq"].complete

=============================================================================
